---- MODULE Spec2Model ----
(***************************************************************************)
(* A model of the instinct-learning plugin: the confidence library         *)
(* (lib/confidence.py), the read-time decay (scripts/utils/confidence.py), *)
(* the clustering engine (lib/clustering.py), the evidence update          *)
(* (lib/instinct_parser.py) and the prune and import commands over the     *)
(* instinct store (scripts/commands, scripts/utils/file_io.py), the        *)
(* pattern detectors (lib/pattern_detection.py) and the observer cycle     *)
(* that turns patterns into instinct files (scripts/run-observer.py).      *)
(*                                                                         *)
(* Confidence values are written in hundredths: 30 is 0.3, 90 is 0.9.      *)
(* The confidence library is modelled in exact decimal arithmetic; its     *)
(* operations (+, -, *, min, max, round) are monotone in binary64 as well, *)
(* and the range and monotonicity properties stated of it here do not      *)
(* depend on how a tie is rounded.  The mean that create_clusters compares *)
(* with its threshold does depend on binary64 rounding, so that function   *)
(* is modelled on binary64 values (section "binary64").                    *)
(***************************************************************************)
EXTENDS Integers, Sequences, FiniteSets, TLC

VARIABLES
    call,       \* the pure-function call under examination: fn, args, done, ret
    engine,     \* EvolutionEngine: min_cluster_size, clusters, analyzed
    target,     \* an Instinct object that evidence updates mutate
    manager,    \* ConfidenceManager: decay_rate, corrections, last_used
    personal,   \* instincts/personal: file name -> file content
    inherited,  \* instincts/inherited: file name -> file content
    archived,   \* instincts/archived: file name -> file content
    exported,   \* the file that cmd_export --output wrote, outside the store
    clock,      \* wall clock, in seconds
    moves,      \* history of the files shutil.move moved out of the store
    last        \* the last command run on the store and what it returned

vars ==
    <<call, engine, target, manager, personal, inherited, archived, exported,
      clock, moves, last>>

storeVars == <<personal, inherited, archived, exported, clock, moves, last>>

----------------------------------------------------------------------------
(* Helpers *)

Min(a, b) == IF a <= b THEN a ELSE b

Max(a, b) == IF a >= b THEN a ELSE b

RECURSIVE SumSeq(_)
SumSeq(s) == IF s = <<>> THEN 0 ELSE Head(s) + SumSeq(Tail(s))

\* n / d (d > 0) rounded to the nearest integer, ties to the even one: what
\* Python's round(x, 2) gives for a value written in units of 1/(100 * d).
RoundDiv(n, d) ==
    LET q == n \div d
        r == n - q * d
    IN  IF 2 * r < d THEN q
        ELSE IF 2 * r > d THEN q + 1
        ELSE IF q % 2 = 0 THEN q ELSE q + 1

----------------------------------------------------------------------------
(* lib/confidence.py *)

MIN_CONFIDENCE == 30

MAX_CONFIDENCE == 90

AUTO_APPROVE_THRESHOLD == 70

calculate_base_confidence_nonmonotone(occurrence_count) ==
    IF occurrence_count >= 10 THEN 60
    ELSE IF occurrence_count >= 5 THEN 80
    ELSE IF occurrence_count >= 3 THEN 50
    ELSE MIN_CONFIDENCE

calculate_base_confidence(occurrence_count) ==
    IF occurrence_count >= 10 THEN 80
    ELSE IF occurrence_count >= 5 THEN 60
    ELSE IF occurrence_count >= 3 THEN 50
    ELSE MIN_CONFIDENCE

apply_corrections(base_confidence, correction_count) ==
    LET penalty == correction_count * 15
    IN  Max(MIN_CONFIDENCE, base_confidence - penalty)

apply_consistency_boost(confidence, consistency_score) ==
    IF consistency_score > 90 THEN Min(MAX_CONFIDENCE, confidence + 10)
    ELSE IF consistency_score > 70 THEN Min(MAX_CONFIDENCE, confidence + 5)
    ELSE confidence

\* The final clamp of calculate_confidence and calculate_merge_confidence,
\* round(max(MIN, min(MAX, x)), 2), on x in units of 1/10000.
ClampRound_noclamp(x) == RoundDiv(x, 100)

ClampRound(x) ==
    RoundDiv(Max(MIN_CONFIDENCE * 100, Min(MAX_CONFIDENCE * 100, x)), 100)

\* The consistency boost comes before the correction penalty.
calculate_confidence_boost_first(factors) ==
    LET c0 == calculate_base_confidence(factors.occurrence_count)
        c1 == apply_consistency_boost(c0, factors.consistency_score)
        c2 == apply_corrections(c1, factors.user_corrections)
        c3 == Min(MAX_CONFIDENCE, c2 + factors.recency_boost)
        c4 == c3 * factors.domain_relevance
    IN  ClampRound(c4)

\* factors: occurrence_count, user_corrections (integers), consistency_score,
\* recency_boost, domain_relevance (hundredths).
calculate_confidence(factors) ==
    LET c0 == calculate_base_confidence(factors.occurrence_count)
        c1 == apply_corrections(c0, factors.user_corrections)
        c2 == apply_consistency_boost(c1, factors.consistency_score)
        c3 == Min(MAX_CONFIDENCE, c2 + factors.recency_boost)
        c4 == c3 * factors.domain_relevance
    IN  ClampRound(c4)

\* The decayed value is not held at MIN_CONFIDENCE.
calculate_decay_unfloored(current_confidence, days_since_use, decay_rate) ==
    IF days_since_use <= 0 THEN current_confidence
    ELSE current_confidence - days_since_use * decay_rate

\* decay_rate in hundredths per day.
calculate_decay(current_confidence, days_since_use, decay_rate) ==
    IF days_since_use <= 0 THEN current_confidence
    ELSE LET decay_amount == days_since_use * decay_rate
         IN  Max(MIN_CONFIDENCE, current_confidence - decay_amount)

\* weight1 in hundredths.
calculate_merge_confidence(confidence1, confidence2, weight1) ==
    LET weight2 == 100 - weight1
        merged == (confidence1 * weight1) + (confidence2 * weight2)
    IN  ClampRound(merged)

calculate_cluster_confidence(confidences) ==
    IF confidences = <<>> THEN MIN_CONFIDENCE
    ELSE LET n == Len(confidences)
             cluster_boost == Min(10, n * 2)
             \* n * (avg + cluster_boost)
             num == SumSeq(confidences) + n * cluster_boost
         IN  RoundDiv(Min(MAX_CONFIDENCE * n, num), n)

----------------------------------------------------------------------------
(* binary64 *)
(***************************************************************************)
(* Python floats, for the arithmetic of create_clusters.  A value is a     *)
(* non-negative multiple of 2^-60 below 16, held as four 16-bit limbs,     *)
(* least significant first; every binary64 value in {0} \cup [2^-7, 16)    *)
(* is one.  Each operation computes the exact result and rounds it to 53   *)
(* significant bits, ties to even, as IEEE 754 does.                       *)
(***************************************************************************)

LimbBase == 2^16

Pow2(k) == 2^k

RECURSIVE BigAddCarry(_, _, _)
BigAddCarry(a, b, carry) ==
    IF a = <<>> THEN (IF carry = 0 THEN <<>> ELSE <<carry>>)
    ELSE LET t == Head(a) + Head(b) + carry
         IN  <<t % LimbBase>> \o BigAddCarry(Tail(a), Tail(b), t \div LimbBase)

\* a + b, for a and b of the same number of limbs.
BigAdd(a, b) == BigAddCarry(a, b, 0)

RECURSIVE BigMulCarry(_, _, _)
BigMulCarry(a, m, carry) ==
    IF a = <<>> THEN <<carry>>
    ELSE LET t == Head(a) * m + carry
         IN  <<t % LimbBase>> \o BigMulCarry(Tail(a), m, t \div LimbBase)

\* a * m for a small m; one limb longer than a.
BigMulSmall(a, m) == BigMulCarry(a, m, 0)

\* a \div d and a % d for a small d, from the most significant limb down.
RECURSIVE BigDivFrom(_, _, _)
BigDivFrom(a, d, rem) ==
    IF a = <<>> THEN [q |-> <<>>, r |-> rem]
    ELSE LET n == Len(a)
             t == rem * LimbBase + a[n]
             rest == BigDivFrom(SubSeq(a, 1, n - 1), d, t % d)
         IN  [q |-> Append(rest.q, t \div d), r |-> rest.r]

BigDivSmall(a, d) == BigDivFrom(a, d, 0)

RECURSIVE IntBitLen(_)
IntBitLen(n) == IF n = 0 THEN 0 ELSE 1 + IntBitLen(n \div 2)

RECURSIVE BigBitLen(_)
BigBitLen(a) ==
    IF a = <<>> THEN 0
    ELSE IF a[Len(a)] # 0 THEN 16 * (Len(a) - 1) + IntBitLen(a[Len(a)])
    ELSE BigBitLen(SubSeq(a, 1, Len(a) - 1))

\* -1, 0, 1 as a < b, a = b, a > b, for a and b of the same number of limbs.
RECURSIVE BigCompare(_, _)
BigCompare(a, b) ==
    IF a = <<>> THEN 0
    ELSE LET n == Len(a)
         IN  IF a[n] < b[n] THEN 0 - 1
             ELSE IF a[n] > b[n] THEN 1
             ELSE BigCompare(SubSeq(a, 1, n - 1), SubSeq(b, 1, n - 1))

PadTo(a, n) == a \o [i \in 1..(n - Len(a)) |-> 0]

\* a, with `sticky` saying that the exact value lies strictly above a,
\* rounded to 53 significant bits, ties to even.  The bits rounded away lie
\* in the lowest limb (fewer than 16 of them).
Round53(a, sticky) ==
    LET s == BigBitLen(a) - 53
    IN  IF s <= 0 THEN a
        ELSE LET low == a[1] % Pow2(s)
                 half == Pow2(s - 1)
                 lsb == (a[1] \div Pow2(s)) % 2
                 up == \/ low > half
                       \/ low = half /\ (sticky \/ lsb = 1)
                 down == [a EXCEPT ![1] = a[1] - low]
             IN  IF up THEN SubSeq(BigAdd(down, PadTo(<<Pow2(s)>>, Len(a))),
                                   1, Len(a))
                 ELSE down

F64Zero == <<0, 0, 0, 0>>

\* x + y
F64Add(x, y) == SubSeq(Round53(PadTo(BigAdd(x, y), 5), FALSE), 1, 4)

\* x / n for an integer n >= 1
F64DivInt(x, n) ==
    LET d == BigDivSmall(x, n)
    IN  SubSeq(Round53(d.q, d.r # 0), 1, 4)

\* The float that the decimal h/100 denotes (a literal, or a parsed number).
F64FromCenti(h) ==
    LET n == h * Pow2(12)
        d == BigDivSmall(<<0, 0, 0, n % LimbBase, n \div LimbBase>>, 100)
    IN  SubSeq(Round53(d.q, d.r # 0), 1, 4)

F64Less(x, y) == BigCompare(x, y) < 0

\* float(n) for an integer 0 <= n < 16
F64FromInt(n) == <<0, 0, 0, n * Pow2(12)>>

\* n * x for an integer n >= 0, the product below 16
F64MulInt(x, n) == SubSeq(Round53(BigMulSmall(x, n), FALSE), 1, 4)

F64Min(x, y) == IF F64Less(y, x) THEN y ELSE x

\* n / d for integers 0 <= n <= d, d >= 1 (Python's true division).
F64Quotient(n, d) ==
    LET m == n * Pow2(12)
        q == BigDivSmall(<<0, 0, 0, m % LimbBase, m \div LimbBase>>, d)
    IN  SubSeq(Round53(q.q, q.r # 0), 1, 4)

\* round(x, 2), in hundredths: the exact value to the nearest hundredth,
\* ties to even.
F64Round2(x) ==
    LET p == BigMulSmall(x, 100)
        whole == p[5] * 16 + p[4] \div Pow2(12)
        frac == <<p[1], p[2], p[3], p[4] % Pow2(12)>>
        c == BigCompare(frac, <<0, 0, 0, Pow2(11)>>)
    IN  IF c < 0 THEN whole
        ELSE IF c > 0 THEN whole + 1
        ELSE IF whole % 2 = 0 THEN whole ELSE whole + 1

\* sum(xs): Python adds from the left, starting at 0.
RECURSIVE F64Sum(_, _)
F64Sum(xs, acc) ==
    IF xs = <<>> THEN acc ELSE F64Sum(Tail(xs), F64Add(acc, Head(xs)))

----------------------------------------------------------------------------
(* lib/clustering.py *)

MIN_INSTINCTS_FOR_CLUSTER == 3

MIN_AVG_CONFIDENCE == 70

\* A trigger is held as the set of keywords that occur in it as substrings.
command_keywords == {"run", "execute", "perform", "do"}

complex_keywords == {"analyze", "research", "investigate", "design"}

RECURSIVE DomainOrder(_, _)
DomainOrder(instincts, seen) ==
    IF instincts = <<>> THEN seen
    ELSE LET d == Head(instincts).domain
         IN  DomainOrder(Tail(instincts),
                         IF \E i \in 1..Len(seen) : seen[i] = d THEN seen
                         ELSE Append(seen, d))

InDomain(instincts, d) == SelectSeq(instincts, LAMBDA i : i.domain = d)

\* The dict of domain -> members, as the sequence of its items in insertion
\* order.
group_by_domain(instincts) ==
    LET domains == DomainOrder(instincts, <<>>)
    IN  [k \in 1..Len(domains) |->
            [domain |-> domains[k],
             instincts |-> InDomain(instincts, domains[k])]]

CountWith(instincts, keywords) ==
    Len(SelectSeq(instincts, LAMBDA i : i.trigger \cap keywords # {}))

\* The command keywords are looked at first.
determine_capability_type_command_first(instincts) ==
    LET command_count == CountWith(instincts, command_keywords)
        complex_count == CountWith(instincts, complex_keywords)
        threshold == F64MulInt(F64FromCenti(30), Len(instincts))
    IN  IF F64Less(threshold, F64FromInt(command_count)) THEN "command"
        ELSE IF F64Less(threshold, F64FromInt(complex_count)) THEN "agent"
        ELSE "skill"

\* count > len(instincts) * 0.3, the product a float.
determine_capability_type(instincts) ==
    LET command_count == CountWith(instincts, command_keywords)
        complex_count == CountWith(instincts, complex_keywords)
        threshold == F64MulInt(F64FromCenti(30), Len(instincts))
    IN  IF F64Less(threshold, F64FromInt(complex_count)) THEN "agent"
        ELSE IF F64Less(threshold, F64FromInt(command_count)) THEN "command"
        ELSE "skill"

Confidences(instincts) ==
    [k \in 1..Len(instincts) |-> F64FromCenti(instincts[k].confidence)]

\* sum(confidences) / len(confidences), a float
MeanConfidence(instincts) ==
    F64DivInt(F64Sum(Confidences(instincts), F64Zero), Len(instincts))

\* A cluster goes before the clusters of equal avg_confidence.
RECURSIVE SortedInsert_before_equal(_, _)
SortedInsert_before_equal(sorted, c) ==
    IF sorted = <<>> THEN <<c>>
    ELSE IF Head(sorted).avg_confidence > c.avg_confidence
         THEN <<Head(sorted)>> \o SortedInsert_before_equal(Tail(sorted), c)
         ELSE <<c>> \o sorted

\* clusters.sort(key=avg_confidence, reverse=True): stable, so a cluster goes
\* behind the clusters of equal avg_confidence that precede it.
RECURSIVE SortedInsert(_, _)
SortedInsert(sorted, c) ==
    IF sorted = <<>> THEN <<c>>
    ELSE IF Head(sorted).avg_confidence >= c.avg_confidence
         THEN <<Head(sorted)>> \o SortedInsert(Tail(sorted), c)
         ELSE <<c>> \o sorted

RECURSIVE SortByConfidence(_, _)
SortByConfidence(clusters, sorted) ==
    IF clusters = <<>> THEN sorted
    ELSE SortByConfidence(Tail(clusters), SortedInsert(sorted, Head(clusters)))

\* One pass of the loop over by_domain.items(): the clusters so far, with the
\* group's cluster appended when the group is admitted.
AdmitGroup(clusters, group, min_size, min_confidence) ==
    IF Len(group.instincts) < min_size THEN clusters
    ELSE LET avg_confidence == MeanConfidence(group.instincts)
         IN  IF F64Less(avg_confidence, F64FromCenti(min_confidence))
             THEN clusters
             ELSE Append(clusters,
                         [domain |-> group.domain,
                          instincts |-> group.instincts,
                          avg_confidence |-> F64Round2(avg_confidence),
                          capability_type |->
                              determine_capability_type(group.instincts)])

RECURSIVE AdmitGroups(_, _, _, _)
AdmitGroups(clusters, groups, min_size, min_confidence) ==
    IF groups = <<>> THEN clusters
    ELSE AdmitGroups(AdmitGroup(clusters, Head(groups), min_size, min_confidence),
                     Tail(groups), min_size, min_confidence)

\* min_confidence in hundredths; a cluster's avg_confidence is round(mean, 2),
\* in hundredths.
create_clusters(instincts, min_size, min_confidence) ==
    SortByConfidence(
        AdmitGroups(<<>>, group_by_domain(instincts), min_size, min_confidence),
        <<>>)

\* Cluster.count
Count(cluster) == Len(cluster.instincts)

filter_ready_for_evolution(clusters) ==
    SelectSeq(clusters,
              LAMBDA c : /\ Count(c) >= MIN_INSTINCTS_FOR_CLUSTER
                         /\ ~F64Less(F64FromCenti(c.avg_confidence),
                                     F64FromCenti(AUTO_APPROVE_THRESHOLD)))

\* The new clusters are added to the cached ones.
analyze_accumulating(eng, instincts) ==
    [eng EXCEPT !.clusters =
        @ \o create_clusters(instincts, eng.min_cluster_size, MIN_AVG_CONFIDENCE)]

\* EvolutionEngine.analyze: the clusters cached, with the default
\* min_confidence.
analyze(eng, instincts) ==
    [eng EXCEPT !.clusters =
        create_clusters(instincts, eng.min_cluster_size, MIN_AVG_CONFIDENCE)]

get_ready_clusters(eng) == filter_ready_for_evolution(eng.clusters)

get_pending_clusters(eng) ==
    SelectSeq(eng.clusters,
              LAMBDA c : ~\E k \in 1..Len(get_ready_clusters(eng)) :
                              get_ready_clusters(eng)[k] = c)

----------------------------------------------------------------------------
(* scripts/utils/confidence.py *)

DEFAULT_DECAY_RATE == 2

\* The floor of the decayed confidence, scripts/utils/confidence.py's own
\* MIN_CONFIDENCE.
DECAY_MIN_CONFIDENCE == 30

\* Values a timestamp field of an instinct dict can hold.  A string is empty,
\* an ISO timestamp of a day, or text datetime.fromisoformat rejects; YAML
\* also yields null, a datetime object for an unquoted timestamp, and other
\* scalars such as an integer.
EmptyString == [type |-> "str", text |-> "empty"]

Unparsable == [type |-> "str", text |-> "unparsable"]

IsoDay(d) == [type |-> "str", text |-> "iso", day |-> d]

NoneValue == [type |-> "none"]

DatetimeObject == [type |-> "datetime"]

IntObject == [type |-> "int"]

\* Python's truth value of a timestamp field: '' and None are false.
Truthy(v) == v # EmptyString /\ v # NoneValue

Get(d, key, default) == IF key \in DOMAIN d THEN d[key] ELSE default

Value(v) == [exc |-> "none", v |-> v]

Raised(e) == [exc |-> e, v |-> 0]

\* The elapsed time is not held at zero.
calculate_effective_confidence_unclamped(instinct, decay_rate, now) ==
    LET base_confidence == Get(instinct, "confidence", 50)
        last_observed ==
            Get(instinct, "last_observed", Get(instinct, "created", EmptyString))
    IN  IF ~Truthy(last_observed) THEN Value(base_confidence * 7)
        ELSE IF last_observed.type = "int" THEN Raised("AttributeError")
        ELSE IF last_observed.type = "datetime" THEN Value(base_confidence * 7)
        ELSE IF last_observed = Unparsable THEN Value(base_confidence * 7)
        ELSE LET decay == decay_rate * (now - last_observed.day)
             IN  Value(Max(DECAY_MIN_CONFIDENCE * 7, base_confidence * 7 - decay))

\* The decay is added.
calculate_effective_confidence_added(instinct, decay_rate, now) ==
    LET base_confidence == Get(instinct, "confidence", 50)
        last_observed ==
            Get(instinct, "last_observed", Get(instinct, "created", EmptyString))
    IN  IF ~Truthy(last_observed) THEN Value(base_confidence * 7)
        ELSE IF last_observed.type = "int" THEN Raised("AttributeError")
        ELSE IF last_observed.type = "datetime" THEN Value(base_confidence * 7)
        ELSE IF last_observed = Unparsable THEN Value(base_confidence * 7)
        ELSE LET decay == decay_rate * Max(0, now - last_observed.day)
             IN  Value(Max(DECAY_MIN_CONFIDENCE * 7, base_confidence * 7 + decay))

\* instinct: a dict (a record that may lack any of its keys); decay_rate in
\* hundredths per week; now: the day datetime.now() falls on.  The result is
\* in units of 1/700 (elapsed weeks are delta.days / 7): 210 is 0.3.
calculate_effective_confidence(instinct, decay_rate, now) ==
    LET base_confidence == Get(instinct, "confidence", 50)
        last_observed ==
            Get(instinct, "last_observed", Get(instinct, "created", EmptyString))
    IN  IF ~Truthy(last_observed) THEN Value(base_confidence * 7)
        \* last_observed.replace('Z', '+00:00'): an object without replace()
        \* raises AttributeError, which the handler does not catch
        ELSE IF last_observed.type = "int" THEN Raised("AttributeError")
        \* datetime.replace() rejects positional strings: TypeError, caught
        ELSE IF last_observed.type = "datetime" THEN Value(base_confidence * 7)
        \* datetime.fromisoformat: ValueError, caught
        ELSE IF last_observed = Unparsable THEN Value(base_confidence * 7)
        ELSE LET days == now - last_observed.day
                 \* 7 * weeks_since
                 days_since == Max(0, days)
                 \* 7 * decay, in hundredths
                 decay == decay_rate * days_since
             IN  Value(Max(DECAY_MIN_CONFIDENCE * 7, base_confidence * 7 - decay))

----------------------------------------------------------------------------
(* Inputs of the confidence library's functions *)

MaxOccurrence == 11

MaxCorrections == 3

MaxDays == 4

MaxClusterLen == 3

OccurrenceCounts == (0 - 1)..MaxOccurrence

CorrectionCounts == (0 - MaxCorrections)..MaxCorrections

ConsistencyScores == {0 - 10, 50, 70, 71, 80, 90, 91, 150}

RecencyBoosts == {0 - 100, 0 - 15, 0, 5, 100}

DomainRelevances == {0 - 100, 0, 50, 100, 150}

\* -0.1, -0.05, 0.0, ..., 1.1
ConfidenceGrid == {5 * k : k \in (0 - 2)..22}

DaysSinceUse == (0 - 1)..MaxDays

DecayRates == {0 - 20, 0, 2, 50}

Weights == {0 - 50, 0, 25, 50, 75, 100, 150}

ClusterMembers == {0 - 10, 10, 60, 70, 80, 110}

ClusterLists == UNION {[1..n -> ClusterMembers] : n \in 0..MaxClusterLen}

AllFactors ==
    [occurrence_count : OccurrenceCounts, user_corrections : CorrectionCounts,
     consistency_score : ConsistencyScores, recency_boost : RecencyBoosts,
     domain_relevance : DomainRelevances]

Pending(fn, args) ==
    [fn |-> fn, args |-> args, done |-> FALSE, ret |-> 0, exc |-> "none"]

ConfCalls ==
    {Pending("calculate_confidence", f) : f \in AllFactors}
    \cup {Pending("calculate_merge_confidence", a) :
            a \in [confidence1 : ConfidenceGrid, confidence2 : ConfidenceGrid,
                   weight1 : Weights]}
    \cup {Pending("apply_corrections", a) :
            a \in [base_confidence : ConfidenceGrid,
                   correction_count : CorrectionCounts]}
    \cup {Pending("apply_consistency_boost", a) :
            a \in [confidence : ConfidenceGrid,
                   consistency_score : ConsistencyScores]}
    \cup {Pending("calculate_decay", a) :
            a \in [current_confidence : ConfidenceGrid,
                   days_since_use : DaysSinceUse, decay_rate : DecayRates]}
    \cup {Pending("calculate_cluster_confidence", [confidences |-> l]) :
            l \in ClusterLists}

Return(v) == call' = [call EXCEPT !.done = TRUE, !.ret = v]

Raise(e) == call' = [call EXCEPT !.done = TRUE, !.exc = e]

Calling(fn) == call.fn = fn /\ ~call.done

Called(fn) == call.fn = fn /\ call.done

NoCall == [fn |-> "none", args |-> <<>>, done |-> TRUE, ret |-> 0, exc |-> "none"]

NoInstinct == [id |-> "none"]

NoEngine == [min_cluster_size |-> 0, clusters |-> <<>>]

NoManager == [decay_rate |-> 0, corrections |-> <<>>, last_used |-> <<>>]

\* No file has been exported.
NoFile == [exists |-> FALSE, content |-> <<>>]

----------------------------------------------------------------------------
(* The confidence library, one call at a time *)

CalculateConfidence ==
    /\ Calling("calculate_confidence")
    /\ Return(calculate_confidence(call.args))
    /\ UNCHANGED <<engine, target, manager, storeVars>>

CalculateMergeConfidence ==
    /\ Calling("calculate_merge_confidence")
    /\ Return(calculate_merge_confidence(call.args.confidence1,
                call.args.confidence2, call.args.weight1))
    /\ UNCHANGED <<engine, target, manager, storeVars>>

ApplyCorrections ==
    /\ Calling("apply_corrections")
    /\ Return(apply_corrections(call.args.base_confidence,
                call.args.correction_count))
    /\ UNCHANGED <<engine, target, manager, storeVars>>

ApplyConsistencyBoost ==
    /\ Calling("apply_consistency_boost")
    /\ Return(apply_consistency_boost(call.args.confidence,
                call.args.consistency_score))
    /\ UNCHANGED <<engine, target, manager, storeVars>>

CalculateDecay ==
    /\ Calling("calculate_decay")
    /\ Return(calculate_decay(call.args.current_confidence,
                call.args.days_since_use, call.args.decay_rate))
    /\ UNCHANGED <<engine, target, manager, storeVars>>

CalculateClusterConfidence ==
    /\ Calling("calculate_cluster_confidence")
    /\ Return(calculate_cluster_confidence(call.args.confidences))
    /\ UNCHANGED <<engine, target, manager, storeVars>>

StoreIdle ==
    /\ personal = <<>>
    /\ inherited = <<>>
    /\ archived = {}
    /\ exported = NoFile
    /\ clock = 0
    /\ moves = <<>>
    /\ last = [cmd |-> "none"]

InitConf ==
    /\ call \in ConfCalls
    /\ engine = NoEngine
    /\ target = NoInstinct
    /\ manager = NoManager
    /\ StoreIdle

NextConf ==
    \/ CalculateConfidence
    \/ CalculateMergeConfidence
    \/ ApplyCorrections
    \/ ApplyConsistencyBoost
    \/ CalculateDecay
    \/ CalculateClusterConfidence

SpecConf == InitConf /\ [][NextConf]_vars

InRange(v) == MIN_CONFIDENCE <= v /\ v <= MAX_CONFIDENCE

\* C1: calculate_confidence and calculate_merge_confidence return a value in
\* [0.3, 0.9] for every input, negative and out-of-range ones included.
C1_FinalScoresClamped ==
    (call.done /\ call.fn \in {"calculate_confidence",
                               "calculate_merge_confidence"})
        => InRange(call.ret)

\* calculate_confidence has clamped a product far above the range.
C1_Witness ==
    /\ Called("calculate_confidence")
    /\ call.args.occurrence_count >= 10
    /\ call.args.recency_boost = 100
    /\ call.args.domain_relevance = 150
    /\ call.ret = MAX_CONFIDENCE

\* C2: apply_corrections, apply_consistency_boost, calculate_decay and
\* calculate_cluster_confidence each return a value in [0.3, 0.9] for every
\* input.
C2_HelpersClamped ==
    (call.done /\ call.fn \in {"apply_corrections", "apply_consistency_boost",
                               "calculate_decay",
                               "calculate_cluster_confidence"})
        => InRange(call.ret)

WithOccurrences(f, n) == [f EXCEPT !.occurrence_count = n]

WithCorrections(f, n) == [f EXCEPT !.user_corrections = n]

WithConsistency(f, s) == [f EXCEPT !.consistency_score = s]

MonotoneInOccurrences(f) ==
    \A n \in OccurrenceCounts : n >= f.occurrence_count =>
        calculate_confidence(WithOccurrences(f, n)) >= calculate_confidence(f)

MonotoneInCorrections(f) ==
    \A n \in CorrectionCounts : n >= f.user_corrections =>
        calculate_confidence(WithCorrections(f, n)) <= calculate_confidence(f)

MonotoneInConsistency(f) ==
    \A s \in ConsistencyScores : s >= f.consistency_score =>
        calculate_confidence(WithConsistency(f, s)) >= calculate_confidence(f)

\* C3 as stated: with the other four factors fixed at any values,
\* calculate_confidence is non-decreasing in occurrence_count, non-increasing
\* in user_corrections and non-decreasing in consistency_score.
C3_MonotoneAnyFactors ==
    Called("calculate_confidence") =>
        /\ MonotoneInOccurrences(call.args)
        /\ MonotoneInCorrections(call.args)
        /\ MonotoneInConsistency(call.args)

\* C3 as amended: with domain_relevance >= 0, calculate_confidence is
\* non-decreasing in occurrence_count and non-increasing in user_corrections;
\* with domain_relevance >= 0 and user_corrections >= 0 it is non-decreasing
\* in consistency_score.
C3_MonotoneNonNegative ==
    (Called("calculate_confidence") /\ call.args.domain_relevance >= 0) =>
        /\ \A n \in OccurrenceCounts : n >= call.args.occurrence_count =>
              calculate_confidence(WithOccurrences(call.args, n)) >= call.ret
        /\ \A n \in CorrectionCounts : n >= call.args.user_corrections =>
              calculate_confidence(WithCorrections(call.args, n)) <= call.ret
        /\ call.args.user_corrections >= 0 =>
              \A s \in ConsistencyScores : s >= call.args.consistency_score =>
                  calculate_confidence(WithConsistency(call.args, s)) >= call.ret

\* A call in the amended claim's range where each of the three factors moves
\* the score strictly.
C3_Witness ==
    /\ Called("calculate_confidence")
    /\ call.args.domain_relevance > 0
    /\ call.args.user_corrections = 1
    /\ calculate_confidence(WithOccurrences(call.args, MaxOccurrence)) > call.ret
    /\ calculate_confidence(WithCorrections(call.args, 2)) < call.ret
    /\ calculate_confidence(WithConsistency(call.args, 91)) > call.ret

Abs(x) == IF x >= 0 THEN x ELSE 0 - x

\* C18: calculate_confidence composes, in this order: the base by occurrence
\* count (0.3 below 3, 0.5 for 3-4, 0.6 for 5-9, 0.8 from 10); minus 0.15 per
\* correction, not below 0.3; plus 0.1 if consistency > 0.9, else 0.05 if
\* consistency > 0.7, not above 0.9; plus recency_boost, not above 0.9; times
\* domain_relevance; clamped to [0.3, 0.9] and rounded to 2 places (to a
\* nearest hundredth).
C18_ConfidenceComposition ==
    Called("calculate_confidence") =>
        LET f == call.args
            base == IF f.occurrence_count < 3 THEN 30
                    ELSE IF f.occurrence_count <= 4 THEN 50
                    ELSE IF f.occurrence_count <= 9 THEN 60
                    ELSE 80
            corrected == Max(30, base - 15 * f.user_corrections)
            boosted == IF f.consistency_score > 90 THEN Min(90, corrected + 10)
                       ELSE IF f.consistency_score > 70 THEN Min(90, corrected + 5)
                       ELSE corrected
            recent == Min(90, boosted + f.recency_boost)
            \* in units of 1/10000
            relevant == recent * f.domain_relevance
            clamped == Max(3000, Min(9000, relevant))
        IN  2 * Abs(100 * call.ret - clamped) <= 100

\* 5 occurrences, 1 correction and consistency 0.8 give 0.5.
C18_Witness ==
    /\ Called("calculate_confidence")
    /\ call.args = [occurrence_count |-> 5, user_corrections |-> 1,
                    consistency_score |-> 80, recency_boost |-> 0,
                    domain_relevance |-> 100]
    /\ call.ret = 50

\* C19 as stated: calculate_decay(c, d, r) is c when d <= 0 and
\* max(0.3, c - d * r) otherwise, and for c >= 0.3 a larger d never gives a
\* larger result.
C19_DecayMonotoneAnyRate ==
    Called("calculate_decay") =>
        LET c == call.args.current_confidence
            d == call.args.days_since_use
            r == call.args.decay_rate
        IN  /\ call.ret = IF d <= 0 THEN c ELSE Max(30, c - d * r)
            /\ c >= 30 =>
                  \A later \in DaysSinceUse :
                      later >= d => calculate_decay(c, later, r) <= call.ret

\* C19 as amended: calculate_decay(c, d, r) is c when d <= 0 and
\* max(0.3, c - d * r) otherwise, and for c >= 0.3 and r >= 0 a larger d never
\* gives a larger result.
C19_DecayMonotoneNonNegativeRate ==
    Called("calculate_decay") =>
        LET c == call.args.current_confidence
            d == call.args.days_since_use
            r == call.args.decay_rate
        IN  /\ call.ret = IF d <= 0 THEN c ELSE Max(30, c - d * r)
            /\ (c >= 30 /\ r >= 0) =>
                  \A later \in DaysSinceUse :
                      later >= d => calculate_decay(c, later, r) <= call.ret

\* A confidence above 0.3 decays, and decays further with more days.
C19_Witness ==
    /\ Called("calculate_decay")
    /\ call.args.current_confidence >= 30
    /\ call.args.decay_rate > 0
    /\ call.args.days_since_use >= 1
    /\ call.ret < call.args.current_confidence
    /\ calculate_decay(call.args.current_confidence, MaxDays,
                       call.args.decay_rate) < call.ret

----------------------------------------------------------------------------
(* The read-time decay, one call at a time *)

\* The day the calls run on; timestamps lie before, on and after it.
Today == 700

Timestamps ==
    {EmptyString, Unparsable, NoneValue, DatetimeObject, IntObject}
    \cup {IsoDay(d) : d \in {0, 630, 693, 699, 700, 701, 707}}

StoredConfidences == {0, 10, 30, 50, 80, 100}

OptionalField(key, values) == {<<>>} \cup {[k \in {key} |-> v] : v \in values}

\* The union of two records with disjoint keys.
Merge(r1, r2) ==
    [k \in DOMAIN r1 \cup DOMAIN r2 |-> IF k \in DOMAIN r1 THEN r1[k] ELSE r2[k]]

DecayInstincts ==
    {Merge(c, Merge(l, r)) :
        c \in OptionalField("confidence", StoredConfidences),
        l \in OptionalField("last_observed", Timestamps),
        r \in OptionalField("created", {EmptyString, Unparsable, IsoDay(0),
                                        IsoDay(693)})}

WeeklyDecayRates == {0, DEFAULT_DECAY_RATE, 50}

EffCalls ==
    {Pending("calculate_effective_confidence",
             [instinct |-> i, decay_rate |-> r, now |-> Today]) :
        i \in DecayInstincts, r \in WeeklyDecayRates}

CalculateEffectiveConfidence ==
    /\ Calling("calculate_effective_confidence")
    /\ LET r == calculate_effective_confidence(call.args.instinct,
                    call.args.decay_rate, call.args.now)
       IN  call' = [call EXCEPT !.done = TRUE, !.ret = r.v, !.exc = r.exc]
    /\ UNCHANGED <<engine, target, manager, storeVars>>

InitEff ==
    /\ call \in EffCalls
    /\ engine = NoEngine
    /\ target = NoInstinct
    /\ manager = NoManager
    /\ StoreIdle

NextEff == CalculateEffectiveConfidence

SpecEff == InitEff /\ [][NextEff]_vars

\* C4: for every instinct record whose confidence lies in [0.0, 1.0], whatever
\* its last_observed and created fields and for every non-negative decay
\* rate, calculate_effective_confidence returns a value in [0.3, 1.0], and
\* with a very large elapsed time or decay rate it returns exactly 0.3.
C4_EffectiveInFloorRange ==
    (/\ Called("calculate_effective_confidence")
     /\ call.exc = "none"
     /\ "confidence" \in DOMAIN call.args.instinct
     /\ call.args.decay_rate >= 0)
        => /\ DECAY_MIN_CONFIDENCE * 7 <= call.ret
           /\ call.ret <= 100 * 7
           /\ (/\ "last_observed" \in DOMAIN call.args.instinct
               /\ call.args.instinct.last_observed = IsoDay(0)
               /\ call.args.decay_rate = 50) => call.ret = DECAY_MIN_CONFIDENCE * 7

ObservedOn(instinct, d) ==
    "last_observed" \in DOMAIN instinct /\ instinct.last_observed = IsoDay(d)

ObservedToday(instinct, now) ==
    Merge([last_observed |-> IsoDay(now)],
          [k \in DOMAIN instinct \ {"last_observed"} |-> instinct[k]])

C20_NeverRaisesOnTimestamps ==
    Called("calculate_effective_confidence") =>
        LET instinct == call.args.instinct
            base == Get(instinct, "confidence", 50)
            timestamp == IF "last_observed" \in DOMAIN instinct
                         THEN instinct.last_observed
                         ELSE Get(instinct, "created", EmptyString)
        IN  /\ call.exc = "none"
            /\ call.ret =
                  IF timestamp.type = "str" /\ timestamp.text = "iso"
                  THEN Max(DECAY_MIN_CONFIDENCE * 7,
                           base * 7 - call.args.decay_rate
                                        * Max(0, call.args.now - timestamp.day))
                  ELSE base * 7

----------------------------------------------------------------------------
(* lib/instinct_parser.py: evidence updates *)

MaxEvidenceCount == 11

\* The Instinct dataclass, with the fields the update reads and writes.
EvidenceInstincts ==
    [id : {"i1"}, confidence : {30, 50, 75, 80, 85, 90, 95},
     evidence_count : {1, 3, 4, 8, 9}, evidence : {<<>>, <<"e0">>}]

NewEvidence == {"e1", "e2"}

\* The update without its caps.
update_instinct_evidence_uncapped(inst, new_evidence) ==
    [inst EXCEPT !.evidence = Append(inst.evidence, new_evidence),
                 !.evidence_count = inst.evidence_count + 1,
                 !.confidence = IF inst.evidence_count + 1 >= 10
                                THEN inst.confidence + 10
                                ELSE IF inst.evidence_count + 1 >= 5
                                THEN inst.confidence + 5
                                ELSE inst.confidence]

update_instinct_evidence(inst, new_evidence) ==
    LET evidence == Append(inst.evidence, new_evidence)
        evidence_count == inst.evidence_count + 1
        confidence ==
            IF evidence_count >= 10 THEN Min(90, inst.confidence + 10)
            ELSE IF evidence_count >= 5 THEN Min(80, inst.confidence + 5)
            ELSE inst.confidence
    IN  [inst EXCEPT !.evidence = evidence, !.evidence_count = evidence_count,
                     !.confidence = confidence]

UpdateInstinctEvidence ==
    /\ target.evidence_count < MaxEvidenceCount
    /\ \E e \in NewEvidence :
          /\ target' = update_instinct_evidence(target, e)
          /\ call' = [fn |-> "update_instinct_evidence",
                      args |-> [instinct |-> target, new_evidence |-> e],
                      done |-> TRUE, ret |-> 0, exc |-> "none"]
    /\ UNCHANGED <<engine, manager, storeVars>>

InitEvidence ==
    /\ call = NoCall
    /\ engine = NoEngine
    /\ target \in EvidenceInstincts
    /\ manager = NoManager
    /\ StoreIdle

NextEvidence == UpdateInstinctEvidence

SpecEvidence == InitEvidence /\ [][NextEvidence]_vars

\* C10: for every instinct and every evidence string, the instinct's
\* confidence after update_instinct_evidence is >= its confidence before the
\* call, at every evidence_count.
C10_EvidenceNeverLowersConfidence ==
    Called("update_instinct_evidence") =>
        target.confidence >= call.args.instinct.confidence

\* C11: each update_instinct_evidence call appends exactly one evidence entry
\* (the new one, at the end) and increases evidence_count by exactly 1, and a
\* confidence in [0.3, 0.9] before the call is in [0.3, 0.9] after it, hence
\* after any number of calls.
C11_EvidenceCountedAndInRange ==
    Called("update_instinct_evidence") =>
        /\ target.evidence
              = call.args.instinct.evidence \o <<call.args.new_evidence>>
        /\ target.evidence_count = call.args.instinct.evidence_count + 1
        /\ InRange(call.args.instinct.confidence) => InRange(target.confidence)

\* A second or later call on an instinct that reaches evidence_count 10 and
\* the cap 0.9.
C11_Witness ==
    /\ Called("update_instinct_evidence")
    /\ Len(call.args.instinct.evidence) >= 2
    /\ call.args.instinct.confidence = 80
    /\ target.evidence_count = 10
    /\ target.confidence = 90

----------------------------------------------------------------------------
(* The clustering engine *)

MaxInstincts == 4

ClusterInstincts ==
    {[id |-> "i", trigger |-> t, confidence |-> c, domain |-> d] :
        d \in {"testing", "git"},
        <<c, t>> \in {<<60, {"when"}>>, <<70, {"run"}>>, <<80, {"analyze"}>>}}

InstinctLists == UNION {[1..n -> ClusterInstincts] : n \in 0..MaxInstincts}

ClusterSizes == 1..MaxInstincts

MaxKindCount == 4

\* Members by the keywords of their triggers: complex ones, command ones,
\* ones with a keyword of each kind and ones with neither, so many of each.
KindLists ==
    {[k \in 1..(a + b + c + d) |->
         [id |-> "i", confidence |-> 70, domain |-> "testing",
          trigger |-> IF k <= a THEN {"analyze"}
                      ELSE IF k <= a + b THEN {"run"}
                      ELSE IF k <= a + b + c THEN {"perform", "design"}
                      ELSE {"when"}]] :
        a \in 0..MaxKindCount, b \in 0..MaxKindCount, c \in 0..2,
        d \in 0..MaxKindCount}

ClusterCalls ==
    {Pending("create_clusters",
             [instincts |-> l, min_size |-> n, min_confidence |-> c]) :
        l \in InstinctLists, n \in ClusterSizes, c \in {60, 70}}
    \cup {Pending("analyze", [instincts |-> l]) : l \in InstinctLists}
    \cup {Pending("determine_capability_type", [instincts |-> l]) :
            l \in KindLists \cup InstinctLists}

DetermineCapabilityType ==
    /\ Calling("determine_capability_type")
    /\ Return(determine_capability_type(call.args.instincts))
    /\ UNCHANGED <<engine, target, manager, storeVars>>

CreateClusters ==
    /\ Calling("create_clusters")
    /\ Return(create_clusters(call.args.instincts, call.args.min_size,
                              call.args.min_confidence))
    /\ UNCHANGED <<engine, target, manager, storeVars>>

Analyze ==
    /\ Calling("analyze")
    /\ engine' = analyze(engine, call.args.instincts)
    /\ Return(engine'.clusters)
    /\ UNCHANGED <<target, manager, storeVars>>

EngineIdle ==
    call.done /\ call.fn \in {"analyze", "get_ready_clusters",
                              "get_pending_clusters"}

GetReadyClusters ==
    /\ EngineIdle
    /\ call' = [fn |-> "get_ready_clusters", args |-> <<>>, done |-> TRUE,
                ret |-> get_ready_clusters(engine), exc |-> "none"]
    /\ UNCHANGED <<engine, target, manager, storeVars>>

GetPendingClusters ==
    /\ EngineIdle
    /\ call' = [fn |-> "get_pending_clusters", args |-> <<>>, done |-> TRUE,
                ret |-> get_pending_clusters(engine), exc |-> "none"]
    /\ UNCHANGED <<engine, target, manager, storeVars>>

InitCluster ==
    /\ call \in ClusterCalls
    /\ engine \in [min_cluster_size : IF call.fn = "analyze" THEN ClusterSizes
                                      ELSE {MIN_INSTINCTS_FOR_CLUSTER},
                   clusters : {<<>>}]
    /\ target = NoInstinct
    /\ manager = NoManager
    /\ StoreIdle

NextCluster ==
    \/ CreateClusters
    \/ DetermineCapabilityType
    \/ Analyze
    \/ GetReadyClusters
    \/ GetPendingClusters

SpecCluster == InitCluster /\ [][NextCluster]_vars

SeqToSet(s) == {s[k] : k \in 1..Len(s)}

\* The mean of the members' confidences is >= min_confidence (hundredths).
MeanAtLeast(instincts, min_confidence) ==
    SumSeq([k \in 1..Len(instincts) |-> instincts[k].confidence])
        >= min_confidence * Len(instincts)

\* C5: create_clusters admits a domain group as a Cluster if and only if its
\* member count is >= min_size and the mean of its members' confidences is
\* >= min_confidence.
C5_AdmissionIffSizeAndMean ==
    Called("create_clusters") =>
        \A d \in {"testing", "git"} :
            LET group == InDomain(call.args.instincts, d)
            IN  (\E c \in SeqToSet(call.ret) : c.domain = d)
                    <=> /\ group # <<>>
                        /\ Len(group) >= call.args.min_size
                        /\ MeanAtLeast(group, call.args.min_confidence)

\* C6: after analyze, a cached cluster is returned by get_ready_clusters if
\* and only if its count is >= the engine's configured min_cluster_size and
\* its avg_confidence is >= AUTO_APPROVE_THRESHOLD.
C6_ReadyIffConfiguredSize ==
    Called("get_ready_clusters") =>
        \A c \in SeqToSet(engine.clusters) :
            (c \in SeqToSet(call.ret))
                <=> /\ Count(c) >= engine.min_cluster_size
                    /\ c.avg_confidence >= AUTO_APPROVE_THRESHOLD

\* The number of members whose trigger holds one of the keywords.
KeywordCount(instincts, keywords) ==
    Cardinality({k \in 1..Len(instincts) :
                    \E w \in keywords : w \in instincts[k].trigger})

\* C17: determine_capability_type gives agent when the members with a complex
\* keyword (analyze, research, investigate, design) are strictly more than
\* 0.3 times the members; else command when those with a command keyword
\* (run, execute, perform, do) are strictly more than 0.3 times the members;
\* else skill.  The complex keywords are looked at first.
C17_CapabilityTypeByKeywordShare ==
    Called("determine_capability_type") =>
        LET n == Len(call.args.instincts)
            complex == KeywordCount(call.args.instincts,
                           {"analyze", "research", "investigate", "design"})
            command == KeywordCount(call.args.instincts,
                           {"run", "execute", "perform", "do"})
        IN  call.ret = IF 10 * complex > 3 * n THEN "agent"
                       ELSE IF 10 * command > 3 * n THEN "command"
                       ELSE "skill"

\* Of 10 members 4 hold a command keyword and 4 a complex one: agent.
C17_Witness ==
    /\ Called("determine_capability_type")
    /\ Len(call.args.instincts) = 10
    /\ KeywordCount(call.args.instincts, command_keywords) = 4
    /\ KeywordCount(call.args.instincts, complex_keywords) = 4
    /\ call.ret = "agent"

----------------------------------------------------------------------------
(* scripts/utils/file_io.py: the instinct store *)

\* A directory is a function from the names of its files to their contents;
\* a file's content is the sequence of its frontmatter blocks, each a dict.
\* File names are a stem and an extension; the stems used here are ids.
Ids == <<"x", "y">>

Extensions == <<"md", "yaml">>

IndexOf(seq, v) == CHOOSE k \in 1..Len(seq) : seq[k] = v

FileName(stem, ext) == [stem |-> stem, ext |-> ext]

EmptyDir == [n \in {} |-> <<>>]

Put(dir, name, content) ==
    [n \in DOMAIN dir \cup {name} |-> IF n = name THEN content ELSE dir[n]]

Remove(dir, name) == [n \in DOMAIN dir \ {name} |-> dir[n]]

\* sorted(...) of paths of one directory compares the names as strings:
\* "x.md" < "x.yaml" < "y.md" < "y.yaml".
NameRank(n) == IndexOf(Ids, n.stem) * Len(Extensions) + IndexOf(Extensions, n.ext)

RECURSIVE SortedNames(_)
SortedNames(names) ==
    IF names = {} THEN <<>>
    ELSE LET first == CHOOSE n \in names :
                          \A o \in names : NameRank(n) <= NameRank(o)
         IN  <<first>> \o SortedNames(names \ {first})

\* scripts/utils/instinct_parser.py, on a file's blocks: a block whose
\* confidence is outside [0.0, 1.0] raises ValueError and is skipped, and a
\* block without an id is filtered out.
parse_instinct_file(content) ==
    SelectSeq(content,
              LAMBDA b : /\ "id" \in DOMAIN b
                         /\ "confidence" \in DOMAIN b =>
                               (0 <= b.confidence /\ b.confidence <= 100))

\* The instincts of one file, each annotated with the file it came from.
LoadFile(dirname, name, content) ==
    LET parsed == parse_instinct_file(content)
    IN  [k \in 1..Len(parsed) |->
            Merge(parsed[k],
                  [_source_file |-> [dir |-> dirname, name |-> name]])]

RECURSIVE LoadFiles(_, _, _)
LoadFiles(dirname, dir, names) ==
    IF names = <<>> THEN <<>>
    ELSE LoadFile(dirname, Head(names), dir[Head(names)])
            \o LoadFiles(dirname, dir, Tail(names))

load_all_instincts(pers, inh) ==
    LoadFiles("personal", pers, SortedNames(DOMAIN pers))
        \o LoadFiles("inherited", inh, SortedNames(DOMAIN inh))

----------------------------------------------------------------------------
(* scripts/commands/cmd_prune.py *)

\* inst['effective_confidence'], in units of 1/700, at the default decay rate.
EffectiveConfidence(inst, now) ==
    calculate_effective_confidence(inst, DEFAULT_DECAY_RATE, now)

\* instincts.sort(key=lambda x: -x['effective_confidence']): a stable sort.
RECURSIVE InsertByEffective(_, _, _)
InsertByEffective(sorted, inst, now) ==
    IF sorted = <<>> THEN <<inst>>
    ELSE IF EffectiveConfidence(Head(sorted), now).v
                >= EffectiveConfidence(inst, now).v
         THEN <<Head(sorted)>> \o InsertByEffective(Tail(sorted), inst, now)
         ELSE <<inst>> \o sorted

RECURSIVE SortByEffective(_, _)
SortByEffective(instincts, now) ==
    IF instincts = <<>> THEN <<>>
    ELSE InsertByEffective(
             SortByEffective(SubSeq(instincts, 1, Len(instincts) - 1), now),
             instincts[Len(instincts)], now)

\* instincts[max_count:], a Python slice: a negative start counts from the end.
SliceFrom(seq, start) ==
    LET from == IF start >= 0 THEN Min(start, Len(seq))
                ELSE Max(0, Len(seq) + start)
    IN  SubSeq(seq, from + 1, Len(seq))

\* dst = ARCHIVED_DIR / f"{src.stem}-{timestamp}{src.suffix}"; the timestamp
\* has a resolution of one second.
Suffixed(name, timestamp) ==
    [stem |-> name.stem, timestamp |-> timestamp, ext |-> name.ext]

\* The archiving loop over to_archive.  st is the store: personal, inherited,
\* archived, clock, moves, exc.  ticks[k] is the number of seconds that pass
\* before the k-th iteration.  shutil.move replaces an existing destination
\* and raises FileNotFoundError when the source is gone.
RECURSIVE ArchiveLoop(_, _, _)
ArchiveLoop(to_archive, ticks, st) ==
    IF to_archive = <<>> \/ st.exc # "none" THEN st
    ELSE LET src == Head(to_archive)._source_file
             now == st.clock + Head(ticks)
             dir == IF src.dir = "personal" THEN st.personal ELSE st.inherited
             dst == IF src.name \in DOMAIN st.archived
                    THEN Suffixed(src.name, now) ELSE src.name
         IN  IF src.name \notin DOMAIN dir
             THEN [st EXCEPT !.clock = now, !.exc = "FileNotFoundError"]
             ELSE ArchiveLoop(Tail(to_archive), Tail(ticks),
                    [personal |-> IF src.dir = "personal"
                                  THEN Remove(st.personal, src.name)
                                  ELSE st.personal,
                     inherited |-> IF src.dir = "inherited"
                                   THEN Remove(st.inherited, src.name)
                                   ELSE st.inherited,
                     archived |-> Put(st.archived, dst, dir[src.name]),
                     clock |-> now,
                     moves |-> Append(st.moves,
                                      [src |-> src, dst |-> dst,
                                       content |-> dir[src.name]]),
                     exc |-> "none"])

\* The instincts the run archives: those past the first max_count in the
\* order of effective confidence.
ToArchive(instincts, max_count, now) ==
    SliceFrom(SortByEffective(instincts, now), max_count)

\* Some instinct's timestamp makes calculate_effective_confidence raise.
EffectiveRaises(instincts, now) ==
    \E k \in 1..Len(instincts) : EffectiveConfidence(instincts[k], now).exc # "none"

\* The whole function: the store it leaves, its return value and the
\* exception it ends with.
enforce_max_instincts(st, max_count, dry_run, now, ticks) ==
    LET instincts == load_all_instincts(st.personal, st.inherited)
        to_archive == ToArchive(instincts, max_count, now)
        after == ArchiveLoop(to_archive, ticks, st)
    IN  IF Len(instincts) <= max_count THEN [st |-> st, ret |-> 0]
        ELSE IF EffectiveRaises(instincts, now)
        THEN [st |-> [st EXCEPT !.exc = "AttributeError"], ret |-> 0]
        ELSE IF dry_run THEN [st |-> st, ret |-> Len(to_archive)]
        ELSE [st |-> after, ret |-> Len(to_archive)]

----------------------------------------------------------------------------
(* scripts/commands/cmd_import.py *)

HasId(instincts, id) == \E k \in 1..Len(instincts) : instincts[k].id = id

\* existing_by_id = {i.get('id'): i for i in existing_instincts}: of several
\* instincts with one id the dict keeps the last loaded.
existing_by_id(existing_instincts, id) ==
    LET ks == {k \in 1..Len(existing_instincts) : existing_instincts[k].id = id}
    IN  existing_instincts[CHOOSE k \in ks : \A j \in ks : j <= k]

IsUpdate(inst, existing_instincts) ==
    Get(inst, "confidence", 0)
        > Get(existing_by_id(existing_instincts, inst.id), "confidence", 0)

\* _categorize_instincts: to_add, to_update and duplicates, each in the order
\* of new_instincts.
_categorize_instincts(new_instincts, existing_instincts) ==
    [to_add |->
        SelectSeq(new_instincts,
                  LAMBDA i : ~HasId(existing_instincts, i.id)),
     to_update |->
        SelectSeq(new_instincts,
                  LAMBDA i : /\ HasId(existing_instincts, i.id)
                             /\ IsUpdate(i, existing_instincts)),
     duplicates |->
        SelectSeq(new_instincts,
                  LAMBDA i : /\ HasId(existing_instincts, i.id)
                             /\ ~IsUpdate(i, existing_instincts))]

_filter_by_confidence(instincts, min_confidence) ==
    SelectSeq(instincts,
              LAMBDA i : Get(i, "confidence", 50) >= min_confidence)

\* The block of the file _write_single_instinct_file writes, as the loader
\* reads it back: the id, the trigger ('unknown' when the instinct has none),
\* the confidence (0.5), the domain ('general'), the source 'inherited' and a
\* source_repo that is not empty; the key imported_from is not an allowed
\* key, and the timestamps of the incoming instinct are not written.
_write_single_instinct_file(instinct) ==
    <<Merge([id |-> instinct.id,
             trigger |-> Get(instinct, "trigger", "unknown"),
             confidence |-> Get(instinct, "confidence", 50),
             domain |-> Get(instinct, "domain", "general"),
             source |-> "inherited"],
            IF Get(instinct, "source_repo", "") # ""
            THEN [source_repo |-> instinct.source_repo]
            ELSE <<>>)>>

\* for inst in all_to_write: INHERITED_DIR / f"{id}.md" is written, replacing
\* the file of that name.
RECURSIVE WriteFiles(_, _)
WriteFiles(inh, all_to_write) ==
    IF all_to_write = <<>> THEN inh
    ELSE WriteFiles(Put(inh, FileName(Head(all_to_write).id, "md"),
                        _write_single_instinct_file(Head(all_to_write))),
                    Tail(all_to_write))

Float(v) == [type |-> "float", value |-> v]

\* args.min_confidence or 0.0
MinConf(min_confidence) ==
    IF min_confidence = NoneValue \/ min_confidence = Float(0) THEN 0
    ELSE min_confidence.value

\* The whole command: the inherited directory it leaves, its return value and
\* the instincts it wrote.  args: source (found, and its blocks), dry_run,
\* force, min_confidence; answer: what the user types when asked.
cmd_import(pers, inh, args, answer) ==
    LET new_instincts == parse_instinct_file(args.source.content)
        cat == _categorize_instincts(new_instincts,
                                     load_all_instincts(pers, inh))
        min_conf == MinConf(args.min_confidence)
        to_add == _filter_by_confidence(cat.to_add, min_conf)
        to_update == _filter_by_confidence(cat.to_update, min_conf)
        all_to_write == to_add \o to_update
        unchanged == [inherited |-> inh, written |-> <<>>]
    IN  IF ~args.source.found THEN Merge([ret |-> 1], unchanged)
        ELSE IF new_instincts = <<>> THEN Merge([ret |-> 1], unchanged)
        ELSE IF args.dry_run THEN Merge([ret |-> 0], unchanged)
        ELSE IF to_add = <<>> /\ to_update = <<>>
        THEN Merge([ret |-> 0], unchanged)
        ELSE IF ~args.force /\ answer # "y" THEN Merge([ret |-> 0], unchanged)
        ELSE [ret |-> 0, inherited |-> WriteFiles(inh, all_to_write),
              written |-> all_to_write]

----------------------------------------------------------------------------
(* The store under prune and import commands *)

\* The number of commands a behaviour runs.
MaxCommands == 2

Block(id, confidence) == [id |-> id, confidence |-> confidence]

\* A block observed long ago: its stored confidence is the highest and its
\* effective confidence the lowest.
Stale(id) == [id |-> id, confidence |-> 90, last_observed |-> IsoDay(0)]

\* personal: x.md, absent, holding instinct x or holding two instincts, and
\* y.md, absent or holding a stale instinct y.
PersonalDirs ==
    {Merge(fx, fy) :
        fx \in OptionalField(FileName("x", "md"),
                   {<<Block("x", 60)>>, <<Block("x", 60), Block("y", 50)>>}),
        fy \in OptionalField(FileName("y", "md"), {<<Stale("y")>>})}

\* inherited: x.md and x.yaml, each absent or holding instinct x.
InheritedDirs ==
    {Merge(fm, fy) :
        fm \in OptionalField(FileName("x", "md"),
                   {<<Block("x", 70)>>}),
        fy \in OptionalField(FileName("x", "yaml"), {<<Block("x", 50)>>})}

\* archived: empty, or holding a file x.md that an earlier prune moved there.
ArchivedDirs == OptionalField(FileName("x", "md"), {<<Block("x", 40)>>})

MaxCounts == (0 - 1)..2

\* The blocks of an import source: valid instincts, one without a confidence,
\* one whose confidence is out of range.
IncomingBlocks ==
    {Block("x", 60), Block("x", 80), [id |-> "y"], Block("y", 150)}

Sources ==
    {[found |-> FALSE, content |-> <<>>]}
    \cup {[found |-> TRUE, content |-> <<b>>] : b \in IncomingBlocks}
    \cup {[found |-> TRUE, content |-> <<Block("x", 80), Block("y", 70)>>]}

MinConfidences == {NoneValue, Float(70)}

\* --force, or the answer typed at the prompt.
Confirmations ==
    {[force |-> TRUE, answer |-> "none"], [force |-> FALSE, answer |-> "y"],
     [force |-> FALSE, answer |-> "n"]}

\* No two instincts of one directory share an id.
UniqueIds(dirname, dir) ==
    LET loaded == LoadFiles(dirname, dir, SortedNames(DOMAIN dir))
    IN  \A j, k \in 1..Len(loaded) : loaded[j].id = loaded[k].id => j = k

Store ==
    [personal |-> personal, inherited |-> inherited, archived |-> archived,
     clock |-> clock, moves |-> moves, exc |-> "none"]

EnforceMaxInstincts ==
    /\ last.n < MaxCommands
    /\ \E max_count \in MaxCounts, dry_run \in BOOLEAN :
          \E ticks \in [1..Len(ToArchive(load_all_instincts(personal, inherited),
                                         max_count, Today)) -> {0, 1}] :
             LET r == enforce_max_instincts(Store, max_count, dry_run, Today,
                                            ticks)
             IN  /\ personal' = r.st.personal
                 /\ inherited' = r.st.inherited
                 /\ archived' = r.st.archived
                 /\ clock' = r.st.clock
                 /\ moves' = r.st.moves
                 /\ last' = [cmd |-> "prune",
                             args |-> [max_count |-> max_count,
                                       dry_run |-> dry_run],
                             pre |-> [personal |-> personal,
                                      inherited |-> inherited,
                                      archived |-> archived],
                             ret |-> r.ret, exc |-> r.st.exc,
                             written |-> <<>>, n |-> last.n + 1]
    /\ UNCHANGED <<call, engine, target, manager, exported>>

CmdImport ==
    /\ last.n < MaxCommands
    /\ \E source \in Sources, min_confidence \in MinConfidences,
          dry_run \in BOOLEAN, confirm \in Confirmations :
          LET args == [source |-> source, min_confidence |-> min_confidence,
                       dry_run |-> dry_run, force |-> confirm.force]
              r == cmd_import(personal, inherited, args, confirm.answer)
          IN  /\ inherited' = r.inherited
              /\ last' = [cmd |-> "import", args |-> args,
                          pre |-> [personal |-> personal,
                                   inherited |-> inherited,
                                   archived |-> archived],
                          answer |-> confirm.answer,
                          ret |-> r.ret, exc |-> "none",
                          written |-> r.written, n |-> last.n + 1]
    /\ UNCHANGED <<call, engine, target, manager, personal, archived, exported,
                   clock, moves>>

InitStore ==
    /\ call = NoCall
    /\ engine = NoEngine
    /\ target = NoInstinct
    /\ manager = NoManager
    /\ personal \in PersonalDirs
    /\ inherited \in InheritedDirs
    /\ UniqueIds("personal", personal)
    /\ UniqueIds("inherited", inherited)
    /\ archived \in ArchivedDirs
    /\ exported = NoFile
    /\ clock = 0
    /\ moves = <<>>
    /\ last = [cmd |-> "none", n |-> 0]

NextStore ==
    \/ EnforceMaxInstincts
    \/ CmdImport

SpecStore == InitStore /\ [][NextStore]_vars

----------------------------------------------------------------------------
(* Claims about the store *)

Loadable == load_all_instincts(personal, inherited)

LoadableBefore == load_all_instincts(last.pre.personal, last.pre.inherited)

\* A prune that ran to its end, without dry-run, on a store holding more
\* instincts than a non-negative max_count.
Pruned ==
    /\ last.cmd = "prune"
    /\ last.exc = "none"
    /\ ~last.args.dry_run
    /\ last.args.max_count >= 0
    /\ Len(LoadableBefore) > last.args.max_count

\* C7: after enforce_max_instincts(max_count = N) without dry-run on a store
\* holding more than N instincts, exactly N instincts remain loadable, every
\* kept instinct's effective confidence is >= every archived one's, and the
\* return value is the original count minus N.
C7_PruneKeepsTopN ==
    Pruned =>
        /\ Len(Loadable) = last.args.max_count
        /\ \A kept \in SeqToSet(Loadable) :
              \A gone \in SeqToSet(LoadableBefore) \ SeqToSet(Loadable) :
                  EffectiveConfidence(kept, Today).v
                      >= EffectiveConfidence(gone, Today).v
        /\ last.ret = Len(LoadableBefore) - last.args.max_count

\* C8: every file a prune moved out of personal or inherited is in archived
\* under the name it was moved to, with its content, and no two moved files
\* share that name: a name clash never overwrites a file.
C8_ArchivedNeverLost ==
    \A k \in 1..Len(moves) :
        /\ moves[k].dst \in DOMAIN archived
        /\ archived[moves[k].dst] = moves[k].content
        /\ \A j \in 1..(k - 1) : moves[j].dst # moves[k].dst

\* An import that was confirmed, by --force or at the prompt, and was no
\* dry run.
Imported ==
    /\ last.cmd = "import"
    /\ last.args.source.found
    /\ ~last.args.dry_run
    /\ (last.args.force \/ last.answer = "y")

StoredWithId(instincts, id) == {s \in SeqToSet(instincts) : s.id = id}

\* C9: a confirmed cmd_import writes an incoming instinct if and only if its
\* confidence is >= min_confidence and no stored instinct has its id or the
\* stored instincts with its id have strictly lower confidence; an incoming
\* instinct whose id is stored with equal or higher confidence is not
\* written, and the stored instincts with that id stay as they were unless
\* another incoming instinct of that id is written.
C9_ImportWritesIffNewOrHigher ==
    Imported =>
        \A inst \in SeqToSet(parse_instinct_file(last.args.source.content)) :
            "confidence" \in DOMAIN inst =>
                LET stored == StoredWithId(LoadableBefore, inst.id)
                    higher == \A s \in stored :
                                  Get(s, "confidence", 0) < inst.confidence
                IN  /\ (inst \in SeqToSet(last.written))
                        <=> /\ inst.confidence >= MinConf(last.args.min_confidence)
                            /\ higher
                    /\ (~higher /\ ~HasId(last.written, inst.id))
                        => StoredWithId(Loadable, inst.id) = stored

\* Every id occurs at most once among the instincts.
IdsOccurOnce(instincts) ==
    \A j, k \in 1..Len(instincts) :
        instincts[j].id = instincts[k].id => j = k

\* C13: a confirmed import on a store in which every id occurs once across
\* personal and inherited leaves a store of which load_all_instincts returns
\* at most one instinct per id (so the same holds after any sequence of
\* confirmed imports): an update replaces the stored instinct.
C13_ImportKeepsIdsUnique ==
    (Imported /\ IdsOccurOnce(LoadableBefore)) => IdsOccurOnce(Loadable)

\* The files of personal, inherited and archived are as before the command.
StoreUntouched ==
    /\ personal = last.pre.personal
    /\ inherited = last.pre.inherited
    /\ archived = last.pre.archived

\* The same prune without dry-run, on the store the command found.
RealPrune ==
    enforce_max_instincts(
        [personal |-> last.pre.personal, inherited |-> last.pre.inherited,
         archived |-> last.pre.archived, clock |-> 0, moves |-> <<>>,
         exc |-> "none"],
        last.args.max_count, FALSE, Today,
        [k \in 1..Len(LoadableBefore) |-> 0])

\* C22: a prune with dry_run, a prune of a store within the limit, an import
\* with dry_run and an import declined at the prompt leave every file of
\* personal, inherited and archived as it was; and a dry-run prune returns
\* the count that the same prune without dry_run completes with.
C22_DryRunLeavesStore ==
    /\ (last.cmd = "prune" /\ last.exc = "none"
            /\ (last.args.dry_run \/ Len(LoadableBefore) <= last.args.max_count))
          => StoreUntouched
    /\ (last.cmd = "import"
            /\ (last.args.dry_run \/ (~last.args.force /\ last.answer # "y")))
          => StoreUntouched
    /\ (last.cmd = "prune" /\ last.exc = "none" /\ last.args.dry_run)
          => /\ RealPrune.st.exc = "none"
             /\ RealPrune.ret = last.ret

----------------------------------------------------------------------------
(* lib/pattern_detection.py *)

\* A Pattern's confidence is a float (section "binary64").
\* An observation is a dict that may lack any of its keys: session,
\* timestamp, tool, exit_code, type.  Timestamps are strings compared as
\* strings; the model writes a timestamp as its rank among the timestamps
\* used, and the default '' as 0, below them all.

\* A Counter: its entries [key, count] in insertion order.
HasKey(counter, key) == \E k \in 1..Len(counter) : counter[k].key = key

Increment(counter, key) ==
    IF HasKey(counter, key)
    THEN [k \in 1..Len(counter) |->
             IF counter[k].key = key
             THEN [counter[k] EXCEPT !.count = @ + 1] ELSE counter[k]]
    ELSE Append(counter, [key |-> key, count |-> 1])

SessionOf(obs) == Get(obs, "session", "default")

\* The keys of by_session, in insertion order.
RECURSIVE SessionOrder(_, _)
SessionOrder(observations, seen) ==
    IF observations = <<>> THEN seen
    ELSE SessionOrder(Tail(observations),
             IF \E k \in 1..Len(seen) : seen[k] = SessionOf(Head(observations))
             THEN seen ELSE Append(seen, SessionOf(Head(observations))))

InSession(observations, session) ==
    SelectSeq(observations, LAMBDA o : SessionOf(o) = session)

\* sorted(session_obs, key=lambda x: x.get('timestamp', '')): a stable sort.
RECURSIVE InsertByTimestamp(_, _)
InsertByTimestamp(sorted, obs) ==
    IF sorted = <<>> THEN <<obs>>
    ELSE IF Get(Head(sorted), "timestamp", 0) <= Get(obs, "timestamp", 0)
         THEN <<Head(sorted)>> \o InsertByTimestamp(Tail(sorted), obs)
         ELSE <<obs>> \o sorted

RECURSIVE SortByTimestamp(_)
SortByTimestamp(session_obs) ==
    IF session_obs = <<>> THEN <<>>
    ELSE InsertByTimestamp(
             SortByTimestamp(SubSeq(session_obs, 1, Len(session_obs) - 1)),
             session_obs[Len(session_obs)])

\* obs.get('exit_code') and obs.get('exit_code') != '0'
IsFailed(obs) == Get(obs, "exit_code", "") \notin {"", "0"}

\* Recovery by an explicit success only.
IsRecovery_success_only(obs) == Get(obs, "exit_code", "") = "0"

\* next_obs.get('exit_code') == '0' or next_obs.get('type') == 'post_tool'
IsRecovery(obs) ==
    Get(obs, "exit_code", "") = "0" \/ Get(obs, "type", "") = "post_tool"

\* The inner loop, from position j to position stop of the session: the
\* first recovering observation that names a tool is counted and ends the
\* scan.
RECURSIVE ScanForFix(_, _, _, _, _)
ScanForFix(sorted_obs, j, stop, failed_tool, pairs) ==
    IF j > stop THEN pairs
    ELSE IF IsRecovery(sorted_obs[j]) /\ Get(sorted_obs[j], "tool", "") # ""
    THEN Increment(pairs, <<failed_tool, sorted_obs[j].tool>>)
    ELSE ScanForFix(sorted_obs, j + 1, stop, failed_tool, pairs)

\* The loop over one session's observations, from position i.
RECURSIVE SessionPairs(_, _, _)
SessionPairs(sorted_obs, i, pairs) ==
    IF i > Len(sorted_obs) THEN pairs
    ELSE SessionPairs(sorted_obs, i + 1,
             IF IsFailed(sorted_obs[i])
             THEN ScanForFix(sorted_obs, i + 1, Min(i + 4, Len(sorted_obs)),
                             Get(sorted_obs[i], "tool", ""), pairs)
             ELSE pairs)

RECURSIVE ErrorFixPairs(_, _, _)
ErrorFixPairs(observations, sessions, pairs) ==
    IF sessions = <<>> THEN pairs
    ELSE ErrorFixPairs(observations, Tail(sessions),
             SessionPairs(SortByTimestamp(InSession(observations, Head(sessions))),
                          1, pairs))

\* A string pattern is written as the sequence of its parts.
ErrorFixPattern(entry) ==
    [pattern_type |-> "error_fix",
     pattern |-> [type |-> "str",
                  parts |-> <<entry.key[1], "->", entry.key[2]>>],
     confidence |-> F64FromCenti(70),
     evidence_count |-> entry.count,
     domain |-> "debugging",
     evidence |-> <<[failed_tool |-> entry.key[1],
                     recovery_tool |-> entry.key[2], count |-> entry.count]>>]

detect_error_fix_patterns(observations) ==
    LET error_fix_pairs ==
            ErrorFixPairs(observations, SessionOrder(observations, <<>>), <<>>)
        kept == SelectSeq(error_fix_pairs, LAMBDA e : e.count >= 2)
    IN  [k \in 1..Len(kept) |-> ErrorFixPattern(kept[k])]

\* tools = [obs.get('tool', '') for obs in sorted_obs if obs.get('tool')]
ToolsOf(sorted_obs) ==
    LET named == SelectSeq(sorted_obs, LAMBDA o : Get(o, "tool", "") # "")
    IN  [k \in 1..Len(named) |-> named[k].tool]

\* for i in range(len(tools) - length + 1), from position i (counted from 1).
RECURSIVE CountWindows(_, _, _, _)
CountWindows(tools, length, i, sequences) ==
    IF i > Len(tools) - length + 1 THEN sequences
    ELSE CountWindows(tools, length, i + 1,
             Increment(sequences, SubSeq(tools, i, i + length - 1)))

\* for length in range(min_length, min(6, len(tools) + 1)), from length.
RECURSIVE CountLengths(_, _, _)
CountLengths(tools, length, sequences) ==
    IF length >= Min(6, Len(tools) + 1) THEN sequences
    ELSE CountLengths(tools, length + 1,
             CountWindows(tools, length, 1, sequences))

RECURSIVE CountSessions(_, _, _, _)
CountSessions(observations, sessions, min_length, sequences) ==
    IF sessions = <<>> THEN sequences
    ELSE CountSessions(observations, Tail(sessions), min_length,
             CountLengths(
                 ToolsOf(SortByTimestamp(InSession(observations, Head(sessions)))),
                 min_length, sequences))

extract_tool_sequences(observations, min_length) ==
    CountSessions(observations, SessionOrder(observations, <<>>), min_length, <<>>)

\* Counter.most_common(n): by count, largest first, equal counts in
\* insertion order; n = 0 stands for all.
RECURSIVE InsertByCount(_, _)
InsertByCount(sorted, entry) ==
    IF sorted = <<>> THEN <<entry>>
    ELSE IF Head(sorted).count >= entry.count
         THEN <<Head(sorted)>> \o InsertByCount(Tail(sorted), entry)
         ELSE <<entry>> \o sorted

RECURSIVE SortByCount(_)
SortByCount(counter) ==
    IF counter = <<>> THEN <<>>
    ELSE InsertByCount(SortByCount(SubSeq(counter, 1, Len(counter) - 1)),
                       counter[Len(counter)])

most_common(counter, n) == SubSeq(SortByCount(counter), 1, Min(n, Len(counter)))

tool_to_domain(tool) ==
    IF tool \in {"Edit", "Write"} THEN "code-style"
    ELSE IF tool = "Grep" THEN "debugging"
    ELSE "workflow"

RECURSIVE CountDomains(_, _)
CountDomains(sequence, domain_counts) ==
    IF sequence = <<>> THEN domain_counts
    ELSE CountDomains(Tail(sequence),
             Increment(domain_counts, tool_to_domain(Head(sequence))))

infer_domain_from_sequence(sequence) ==
    LET domain_counts == CountDomains(sequence, <<>>)
    IN  IF domain_counts = <<>> THEN "workflow"
        ELSE most_common(domain_counts, 1)[1].key

calculate_sequence_confidence(count) ==
    IF count >= 10 THEN F64FromCenti(90)
    ELSE IF count >= 5 THEN F64FromCenti(70)
    ELSE IF count >= 3 THEN F64FromCenti(50)
    ELSE F64FromCenti(30)

SequencePattern(entry) ==
    [pattern_type |-> "repeated_sequence",
     pattern |-> [type |-> "list", parts |-> entry.key],
     confidence |-> calculate_sequence_confidence(entry.count),
     evidence_count |-> entry.count,
     domain |-> infer_domain_from_sequence(entry.key),
     evidence |-> <<[sequence |-> entry.key, count |-> entry.count]>>]

\* A pattern for every counted sequence, whatever its count.
detect_repeated_sequences_unfiltered(observations, min_occurrences) ==
    LET sequences == extract_tool_sequences(observations, 2)
    IN  [k \in 1..Len(sequences) |-> SequencePattern(sequences[k])]

detect_repeated_sequences(observations, min_occurrences) ==
    LET sequences == extract_tool_sequences(observations, 2)
        kept == SelectSeq(sequences, LAMBDA e : e.count >= min_occurrences)
    IN  [k \in 1..Len(kept) |-> SequencePattern(kept[k])]

\* for obs in observations: if tool: tool_counts[tool] += 1
RECURSIVE CountTools(_, _)
CountTools(observations, tool_counts) ==
    IF observations = <<>> THEN tool_counts
    ELSE CountTools(Tail(observations),
             IF Get(Head(observations), "tool", "") # ""
             THEN Increment(tool_counts, Head(observations).tool)
             ELSE tool_counts)

RECURSIVE SumCounts(_)
SumCounts(counter) ==
    IF counter = <<>> THEN 0 ELSE Head(counter).count + SumCounts(Tail(counter))

PreferencePattern(entry, ratio) ==
    [pattern_type |-> "tool_preference",
     pattern |-> [type |-> "str", parts |-> <<"Prefer", entry.key>>],
     confidence |-> F64Min(F64FromCenti(90), F64Add(F64FromCenti(50), ratio)),
     evidence_count |-> entry.count,
     domain |-> "workflow",
     evidence |-> <<[tool |-> entry.key, usage_ratio |-> ratio,
                     count |-> entry.count]>>]

\* A share of 20% counts as dominant.
IsDominant_from_fifth(entry, total_tools) ==
    /\ ~F64Less(F64Quotient(entry.count, total_tools), F64FromCenti(20))
    /\ entry.count >= 5

\* ratio > 0.2 and count >= 5
IsDominant(entry, total_tools) ==
    /\ F64Less(F64FromCenti(20), F64Quotient(entry.count, total_tools))
    /\ entry.count >= 5

detect_tool_preferences(observations) ==
    LET tool_counts == CountTools(observations, <<>>)
        total_tools == SumCounts(tool_counts)
        kept == SelectSeq(most_common(tool_counts, 10),
                          LAMBDA e : IsDominant(e, total_tools))
    IN  IF total_tools = 0 THEN <<>>
        ELSE [k \in 1..Len(kept) |->
                 PreferencePattern(kept[k],
                                   F64Quotient(kept[k].count, total_tools))]

\* all_patterns.sort(key=lambda p: p.confidence, reverse=True): stable.
RECURSIVE InsertPattern(_, _)
InsertPattern(sorted, pattern) ==
    IF sorted = <<>> THEN <<pattern>>
    ELSE IF ~F64Less(Head(sorted).confidence, pattern.confidence)
         THEN <<Head(sorted)>> \o InsertPattern(Tail(sorted), pattern)
         ELSE <<pattern>> \o sorted

RECURSIVE SortPatterns(_)
SortPatterns(patterns) ==
    IF patterns = <<>> THEN <<>>
    ELSE InsertPattern(
             SortPatterns(SubSeq(patterns, 1, Len(patterns) - 1)),
             patterns[Len(patterns)])

detect_all_patterns(observations) ==
    SortPatterns(detect_repeated_sequences(observations, 3)
                     \o detect_error_fix_patterns(observations)
                     \o detect_tool_preferences(observations))

----------------------------------------------------------------------------
(* The pattern detectors, one call at a time *)

MaxWindowLen == 6

MaxErrorFixLen == 4

\* One session in timestamp order: failures of Bash, successes of Edit and
\* observations without an exit code.
WindowKinds ==
    {[tool |-> "Bash", exit_code |-> "1"], [tool |-> "Edit", exit_code |-> "0"],
     [tool |-> "Read", type |-> "pre_tool"]}

WindowLists ==
    UNION {{[k \in 1..n |-> Merge(l[k], [session |-> "s1", timestamp |-> k])] :
               l \in [1..n -> WindowKinds]} : n \in 0..MaxWindowLen}

\* Observations without session and timestamp: failures, successes and
\* completions, with and without a tool, and an empty exit code.
OutcomeKinds ==
    {[tool |-> "Bash", exit_code |-> "1"],
     [tool |-> "Bash", exit_code |-> "1", type |-> "post_tool"],
     [tool |-> "Edit", exit_code |-> "0"],
     [tool |-> "Edit", type |-> "post_tool"],
     [exit_code |-> "0"],
     [exit_code |-> "1"],
     [tool |-> "Bash", exit_code |-> ""],
     [tool |-> "Read", type |-> "pre_tool"]}

\* Failures and successes in two sessions, given out of timestamp order.
SessionKinds ==
    {Merge(k, Merge(s, t)) :
        k \in {[tool |-> "Bash", exit_code |-> "1"],
               [tool |-> "Edit", exit_code |-> "0"]},
        s \in OptionalField("session", {"s1"}),
        t \in OptionalField("timestamp", {2})}

ErrorFixLists ==
    WindowLists
    \cup UNION {[1..n -> OutcomeKinds] : n \in 0..MaxErrorFixLen}
    \cup UNION {[1..n -> SessionKinds] : n \in 0..MaxErrorFixLen}

MaxSequenceLen == 6

MaxStampedLen == 3

MinOccurrences == 1..3

\* Tools used in two sessions, and tools with and without a name and a
\* timestamp in the default session.
SequenceLists ==
    UNION {[1..n -> {[tool |-> t, session |-> s] :
                        t \in {"Read", "Edit"}, s \in {"s1", "s2"}}] :
              n \in 0..MaxSequenceLen}
    \cup UNION {[1..n -> {Merge(k, t) :
                             k \in {[tool |-> "Read"], [tool |-> "Edit"],
                                    [tool |-> "Grep"], [tool |-> ""]},
                             t \in OptionalField("timestamp", {2})}] :
                   n \in 0..MaxStampedLen}

MaxToolCount == 10

MaxExtraCount == 6

MaxMixedLen == 7

Repeat(obs, n) == [k \in 1..n |-> obs]

ManyTools ==
    <<"Read", "Edit", "Bash", "Grep", "Glob", "Write", "Task", "WebFetch",
      "WebSearch", "LS", "NotebookEdit">>

\* Up to three tools by their counts, eleven tools of which one is used
\* more often, and two tools in any order.
PreferenceLists ==
    {Repeat([tool |-> "Read"], a) \o Repeat([tool |-> "Edit"], b)
        \o Repeat([tool |-> "Bash"], c) \o unnamed :
        a \in 0..MaxToolCount, b \in 0..MaxToolCount, c \in 0..MaxToolCount,
        unnamed \in {<<>>, <<[tool |-> ""]>>, <<[type |-> "pre_tool"]>>}}
    \cup {Repeat([tool |-> t], n) \o [k \in 1..Len(ManyTools) |-> [tool |-> ManyTools[k]]] :
            t \in {"Read", "NotebookEdit"}, n \in 0..MaxExtraCount}
    \cup UNION {[1..n -> {[tool |-> "Read"], [tool |-> "Edit"]}] :
                   n \in 0..MaxMixedLen}

DetectCalls ==
    {Pending("detect_error_fix_patterns", [observations |-> l]) :
        l \in ErrorFixLists}
    \cup {Pending("detect_repeated_sequences",
                  [observations |-> l, min_occurrences |-> n]) :
            l \in SequenceLists, n \in MinOccurrences}
    \cup {Pending("detect_tool_preferences", [observations |-> l]) :
            l \in PreferenceLists}

DetectRepeatedSequences ==
    /\ Calling("detect_repeated_sequences")
    /\ Return(detect_repeated_sequences(call.args.observations,
                                        call.args.min_occurrences))
    /\ UNCHANGED <<engine, target, manager, storeVars>>

DetectToolPreferences ==
    /\ Calling("detect_tool_preferences")
    /\ Return(detect_tool_preferences(call.args.observations))
    /\ UNCHANGED <<engine, target, manager, storeVars>>

DetectErrorFixPatterns ==
    /\ Calling("detect_error_fix_patterns")
    /\ Return(detect_error_fix_patterns(call.args.observations))
    /\ UNCHANGED <<engine, target, manager, storeVars>>

InitDetect ==
    /\ call \in DetectCalls
    /\ engine = NoEngine
    /\ target = NoInstinct
    /\ manager = NoManager
    /\ StoreIdle

NextDetect ==
    \/ DetectErrorFixPatterns
    \/ DetectRepeatedSequences
    \/ DetectToolPreferences

SpecDetect == InitDetect /\ [][NextDetect]_vars

\* The observations of each session in timestamp order, as a function of the
\* session.
SessionsOf(observations) == {SessionOf(observations[k]) : k \in 1..Len(observations)}

Sorted(observations, session) == SortByTimestamp(InSession(observations, session))

\* The position of the first of the next 4 observations after position p that
\* satisfies Recovers, or 0.
FirstRecovery(sorted_obs, p, Recovers(_)) ==
    LET qs == {q \in (p + 1)..Min(p + 4, Len(sorted_obs)) : Recovers(sorted_obs[q])}
    IN  IF qs = {} THEN 0 ELSE CHOOSE q \in qs : \A r \in qs : q <= r

\* The number of failed observations, over all sessions, that are paired with
\* a recovering observation and give the pair (failed, recovering) of tools.
PairCount(observations, failed, recovering, Fails(_), Recovers(_)) ==
    Cardinality(
        {sp \in UNION {{<<s, p>> : p \in 1..Len(Sorted(observations, s))} :
                          s \in SessionsOf(observations)} :
            LET sorted_obs == Sorted(observations, sp[1])
                q == FirstRecovery(sorted_obs, sp[2], Recovers)
            IN  /\ Fails(sorted_obs[sp[2]])
                /\ q # 0
                /\ Get(sorted_obs[sp[2]], "tool", "") = failed
                /\ Get(sorted_obs[q], "tool", "") = recovering})

ToolNames == {"", "Bash", "Edit", "Read"}

\* The patterns are exactly one error_fix pattern, with confidence 0.7 and
\* domain debugging, for each pair of tools counted at least twice.
ErrorFixPatternsAre(patterns, observations, Fails(_), Recovers(_)) ==
    /\ \A failed, recovering \in ToolNames :
          (\E k \in 1..Len(patterns) :
                patterns[k].pattern.parts = <<failed, "->", recovering>>)
            <=> PairCount(observations, failed, recovering, Fails, Recovers) >= 2
    /\ \A k \in 1..Len(patterns) :
          /\ patterns[k].pattern_type = "error_fix"
          /\ patterns[k].confidence = F64FromCenti(70)
          /\ patterns[k].domain = "debugging"

ExitCodePresentNotZero(obs) == "exit_code" \in DOMAIN obs /\ obs.exit_code # "0"

SuccessOrCompletion(obs) ==
    ("exit_code" \in DOMAIN obs /\ obs.exit_code = "0")
    \/ ("type" \in DOMAIN obs /\ obs.type = "post_tool")

NonEmptyExitCodeNotZero(obs) ==
    "exit_code" \in DOMAIN obs /\ obs.exit_code # "" /\ obs.exit_code # "0"

SuccessOrCompletionWithTool(obs) ==
    SuccessOrCompletion(obs) /\ "tool" \in DOMAIN obs /\ obs.tool # ""

----------------------------------------------------------------------------
\* The tools of a session in timestamp order.
SessionTools(observations, session) == ToolsOf(Sorted(observations, session))

\* The number of contiguous windows equal to the tuple, of a length from 2 to
\* 5, in the tool lists of the sessions.
WindowCount(observations, tuple) ==
    IF Len(tuple) \notin 2..5 THEN 0
    ELSE Cardinality(
        UNION {{<<s, i>> : i \in {i \in 1..(Len(SessionTools(observations, s)) - Len(tuple) + 1) :
                                    SubSeq(SessionTools(observations, s), i,
                                           i + Len(tuple) - 1) = tuple}} :
                  s \in SessionsOf(observations)})

SubSeqs(tools) ==
    {SubSeq(tools, i, j) : i \in 1..Len(tools), j \in 1..Len(tools)}

\* The tuples that occur contiguously in a session's tool list, or in the
\* tool list of all the observations as they were given.
CandidateTuples(observations) ==
    SubSeqs(ToolsOf(observations))
    \cup UNION {SubSeqs(SessionTools(observations, s)) :
                   s \in SessionsOf(observations)}

\* C15: detect_repeated_sequences gives a pattern for a tuple of tools iff the
\* number of windows equal to it, in the timestamp-sorted tool lists of the
\* sessions and of lengths 2 to min(5, tools in the session), summed over the
\* sessions, is at least min_occurrences; the pattern's evidence_count is that
\* number, and a window that spans two sessions counts for nothing.
C15_SequenceIffWindowCount ==
    Called("detect_repeated_sequences") =>
        LET observations == call.args.observations
            patterns == call.ret
        IN  /\ \A k \in 1..Len(patterns) :
                  /\ patterns[k].pattern_type = "repeated_sequence"
                  /\ WindowCount(observations, patterns[k].pattern.parts)
                        >= call.args.min_occurrences
                  /\ patterns[k].evidence_count =
                        WindowCount(observations, patterns[k].pattern.parts)
            /\ \A tuple \in CandidateTuples(observations) :
                  WindowCount(observations, tuple) >= call.args.min_occurrences
                    => Cardinality({k \in 1..Len(patterns) :
                                       patterns[k].pattern.parts = tuple}) = 1

\* Read, Edit is found three times, in two sessions of at most 4 tools each,
\* and the tuple that joins the end of one session with the start of the
\* other is not reported.
C15_Witness ==
    /\ Called("detect_repeated_sequences")
    /\ call.args.min_occurrences = 3
    /\ SessionsOf(call.args.observations) = {"s1", "s2"}
    /\ \A s \in {"s1", "s2"} : Len(SessionTools(call.args.observations, s)) <= 4
    /\ \E k \in 1..Len(call.ret) :
          /\ call.ret[k].pattern.parts = <<"Read", "Edit">>
          /\ call.ret[k].evidence_count = 3
    /\ Len(call.ret) = 1

\* The number of observations that name the tool.
UseCount(observations, tool) ==
    Cardinality({k \in 1..Len(observations) :
                    Get(observations[k], "tool", "") = tool})

NamedCount(observations) ==
    Cardinality({k \in 1..Len(observations) :
                    Get(observations[k], "tool", "") # ""})

UsedTools(observations) ==
    {Get(observations[k], "tool", "") : k \in 1..Len(observations)} \ {""}

\* Fewer than 10 tools are used more often than the tool.
AmongTenMostUsed(observations, tool) ==
    Cardinality({u \in UsedTools(observations) :
                    UseCount(observations, u) > UseCount(observations, tool)}) < 10

\* The float x is num/den to within 2^-53 (den below 512).
F64Near(x, num, den) ==
    LET m == num * Pow2(12)
        scaled == PadTo(BigMulSmall(x, den), 6)
        exact == <<0, 0, 0, m % LimbBase, m \div LimbBase, 0>>
        tol == <<den * Pow2(7), 0, 0, 0, 0, 0>>
    IN  /\ BigCompare(PadTo(scaled, 7), PadTo(BigAdd(exact, tol), 7)) <= 0
        /\ BigCompare(PadTo(exact, 7), PadTo(BigAdd(scaled, tol), 7)) <= 0

\* C16: detect_tool_preferences gives a pattern for a tool iff the tool is
\* among the 10 most used, its share of the observations that name a tool is
\* strictly above 20% and it is used at least 5 times; the pattern has
\* confidence min(0.9, 0.5 + share) and domain workflow.
C16_PreferenceIffDominant ==
    Called("detect_tool_preferences") =>
        LET observations == call.args.observations
            patterns == call.ret
            total == NamedCount(observations)
        IN  /\ \A k \in 1..Len(patterns) :
                  /\ patterns[k].pattern_type = "tool_preference"
                  /\ patterns[k].pattern.parts[1] = "Prefer"
                  /\ patterns[k].pattern.parts[2] \in UsedTools(observations)
            /\ \A tool \in UsedTools(observations) :
                  LET count == UseCount(observations, tool)
                      found == {k \in 1..Len(patterns) :
                                   patterns[k].pattern.parts[2] = tool}
                  IN  IF /\ AmongTenMostUsed(observations, tool)
                         /\ 5 * count > total
                         /\ count >= 5
                      THEN /\ Cardinality(found) = 1
                           /\ \A k \in found :
                                 /\ patterns[k].domain = "workflow"
                                 /\ F64Near(patterns[k].confidence,
                                            Min(9 * total, 5 * total + 10 * count),
                                            10 * total)
                      ELSE found = {}

\* Two tools are used 5 times each in 10 observations and both get a pattern.
C16_Witness ==
    /\ Called("detect_tool_preferences")
    /\ Len(call.args.observations) = 10
    /\ UseCount(call.args.observations, "Read") = 5
    /\ UseCount(call.args.observations, "Edit") = 5
    /\ Len(call.ret) = 2

----------------------------------------------------------------------------
(* scripts/run-observer.py, lib/instinct_parser.py: the observer cycle *)
(***************************************************************************)
(* A string is written as the sequence of its tokens (tool names, "->",    *)
(* "Prefer"), and an instinct id as the words of its base with the minute  *)
(* of its timestamp suffix.  The ids of the tool names used here are at    *)
(* most 40 characters long, so the cut at 50 characters leaves them whole. *)
(* The clock counts seconds.                                               *)
(***************************************************************************)

DEFAULT_MAX_PATTERNS_PER_CYCLE == 10

\* trigger.lower(), for the names that are 3 or more letters; any other
\* token ("->", "", "LS") holds no word of 3 letters.
LowerCase ==
    [Read |-> "read", Edit |-> "edit", Bash |-> "bash", Grep |-> "grep",
     Glob |-> "glob", Write |-> "write", Task |-> "task",
     WebFetch |-> "webfetch", WebSearch |-> "websearch",
     NotebookEdit |-> "notebookedit", Prefer |-> "prefer",
     When |-> "when", The |-> "the"]

\* re.findall(r'\b[a-zA-Z]{3,}\b', trigger.lower())
RECURSIVE FindWords(_)
FindWords(tokens) ==
    IF tokens = <<>> THEN <<>>
    ELSE (IF Head(tokens) \in DOMAIN LowerCase
          THEN <<LowerCase[Head(tokens)]>> ELSE <<>>) \o FindWords(Tail(tokens))

generate_instinct_id(trigger, domain, now) ==
    LET words == FindWords(trigger)
        key_words == SelectSeq(words, LAMBDA w :
                         w \notin {"when", "the", "for", "and", "with"})
    IN  [base |-> IF key_words # <<>>
                  THEN SubSeq(key_words, 1, Min(3, Len(key_words)))
                  ELSE <<domain>>,
         timestamp |-> now \div 60]

pattern_to_instinct(pattern, now) ==
    LET pattern_str == IF pattern.pattern.type = "list"
                       THEN SubSeq(pattern.pattern.parts, 1,
                                   Min(3, Len(pattern.pattern.parts)))
                       ELSE pattern.pattern.parts
        trigger == IF pattern.pattern_type = "repeated_sequence"
                   THEN [text |-> "when using ... sequence",
                         parts |-> pattern.pattern.parts]
                   ELSE IF pattern.pattern_type = "error_fix"
                   THEN [text |-> "when ... error occurs",
                         parts |-> pattern.pattern.parts]
                   ELSE IF pattern.pattern_type = "tool_preference"
                   THEN [text |-> "when choosing tools", parts |-> <<>>]
                   ELSE [text |-> "when ...", parts |-> pattern.pattern.parts]
    IN  [id |-> generate_instinct_id(pattern_str, pattern.domain, now),
         trigger |-> trigger,
         confidence |-> pattern.confidence,
         domain |-> pattern.domain,
         created |-> now,
         source |-> "observation",
         evidence_count |-> pattern.evidence_count,
         action |-> [text |-> "Apply learned ... pattern",
                     pattern_type |-> pattern.pattern_type],
         evidence |-> <<[text |-> "Detected in ... observations",
                         n |-> pattern.evidence_count]>>]

\* Instinct.to_markdown: the frontmatter, the action section and the
\* evidence section.
to_markdown(instinct) ==
    [frontmatter |-> [id |-> instinct.id, trigger |-> instinct.trigger,
                      confidence |-> instinct.confidence,
                      domain |-> instinct.domain,
                      created |-> instinct.created,
                      source |-> instinct.source,
                      evidence_count |-> instinct.evidence_count],
     action |-> IF instinct.action = [text |-> ""]
                THEN [text |-> "When ..., apply this learned behavior.",
                      trigger |-> instinct.trigger]
                ELSE instinct.action,
     evidence |-> IF instinct.evidence = <<>>
                  THEN <<[text |-> "No evidence recorded"]>>
                  ELSE instinct.evidence]

\* Instinct.from_markdown, of a file that to_markdown wrote.
from_markdown(content) ==
    [id |-> content.frontmatter.id,
     trigger |-> content.frontmatter.trigger,
     confidence |-> content.frontmatter.confidence,
     domain |-> content.frontmatter.domain,
     created |-> content.frontmatter.created,
     source |-> content.frontmatter.source,
     evidence_count |-> content.frontmatter.evidence_count,
     action |-> content.action,
     evidence |-> content.evidence]

\* save_instinct(instinct, DATA_DIR, 'personal'): writes personal/<id>.md.
save_instinct(instinct, dir) ==
    Put(dir, FileName(instinct.id, "md"), to_markdown(instinct))

\* load_all_instincts(DATA_DIR) of lib/instinct_parser.py: the *.md files of
\* personal (nothing writes the shared directory here).
LoadAllInstincts(dir) ==
    {from_markdown(dir[name]) : name \in {n \in DOMAIN dir : n.ext = "md"}}

\* The trigger that run_observer looks up: no pattern string starts with
\* 'when'.
LookupTrigger(pattern) ==
    IF pattern.pattern.type = "list"
    THEN [text |-> "when using ... sequence", parts |-> pattern.pattern.parts]
    ELSE [text |-> "when ...", parts |-> pattern.pattern.parts]

\* update_instinct_evidence on a stored instinct, whose confidence is a
\* decimal literal of hundredths or a sum of such.
Reconfirm(instinct, now) ==
    LET updated == update_instinct_evidence(
                       [instinct EXCEPT !.confidence = F64Round2(@)],
                       [text |-> "Reconfirmed at ...", now |-> now])
    IN  [updated EXCEPT !.confidence = F64FromCenti(@)]

\* The loop over patterns[:max_patterns], from pattern k; the minute changes
\* just before pattern number tick is handled (never, when tick is 0).  A
\* trigger is held by at most one stored instinct.
RECURSIVE ObserverLoop(_, _, _, _, _)
ObserverLoop(patterns, k, tick, existing, st) ==
    IF k > Len(patterns) THEN st
    ELSE LET now == IF tick = k THEN st.clock + 60 ELSE st.clock
             trigger == LookupTrigger(patterns[k])
             found == {i \in existing : i.trigger = trigger}
         IN  IF found # {}
             THEN ObserverLoop(patterns, k + 1, tick, existing,
                      [st EXCEPT !.clock = now,
                                 !.personal = save_instinct(
                                     Reconfirm(CHOOSE i \in found : TRUE, now), @),
                                 !.updated_count = @ + 1])
             ELSE ObserverLoop(patterns, k + 1, tick, existing,
                      [st EXCEPT !.clock = now,
                                 !.personal = save_instinct(
                                     pattern_to_instinct(patterns[k], now), @),
                                 !.created = Append(@,
                                     pattern_to_instinct(patterns[k], now).id),
                                 !.new_count = @ + 1])

\* run_observer on the observations that observations.jsonl holds.
run_observer(observations, max_patterns, tick, dir, now) ==
    LET patterns == detect_all_patterns(observations)
        start == [personal |-> dir, clock |-> now, new_count |-> 0,
                  updated_count |-> 0, created |-> <<>>,
                  patterns |-> <<>>]
    IN  IF observations = <<>> \/ patterns = <<>> THEN start
        ELSE ObserverLoop(SubSeq(patterns, 1, Min(max_patterns, Len(patterns))),
                          1, tick, LoadAllInstincts(dir),
                          [start EXCEPT !.patterns =
                              SubSeq(patterns, 1, Min(max_patterns, Len(patterns)))])

MaxCycles == 2

\* What a session's observations can be: tools in timestamp order, and a
\* failure of Bash that Edit recovers from.
SessionSteps ==
    {<<[tool |-> "Read"], [tool |-> "Edit"]>>,
     <<[tool |-> "Edit"], [tool |-> "Read"]>>,
     <<[tool |-> "Read"], [tool |-> "Edit"], [tool |-> "Bash"]>>,
     <<[tool |-> "Read"], [tool |-> "Edit"], [tool |-> "Bash"], [tool |-> "Grep"]>>,
     <<[tool |-> "Bash", exit_code |-> "1"], [tool |-> "Edit", exit_code |-> "0"]>>,
     <<[tool |-> "Read"]>>}

SessionCounts == {0, 2, 3}

SessionNames == <<"s1", "s2", "s3", "s4", "s5">>

\* The same steps in each of n sessions.
RECURSIVE InSessions(_, _)
InSessions(steps, n) ==
    IF n = 0 THEN <<>>
    ELSE InSessions(steps, n - 1)
         \o [k \in 1..Len(steps) |->
                Merge(steps[k], [session |-> SessionNames[n], timestamp |-> k])]

\* Up to 3 sessions of any steps, and 5 sessions of at most two steps.
ObservationLogs ==
    {InSessions(steps, n) : steps \in SessionSteps, n \in SessionCounts}
    \cup {InSessions(steps, 5) : steps \in {s \in SessionSteps : Len(s) <= 2}}

\* One cycle of the observer, some time after the last one.
RunObserver ==
    /\ last.n < MaxCycles
    /\ \E observations \in ObservationLogs,
          max_patterns \in {2, DEFAULT_MAX_PATTERNS_PER_CYCLE},
          wait \in {0, 300}, tick \in {0, 2} :
          LET r == run_observer(observations, max_patterns, tick, personal,
                                clock + wait)
          IN  /\ personal' = r.personal
              /\ clock' = r.clock
              /\ last' = [cmd |-> "observer",
                          observations |-> observations,
                          again |-> last.n > 0 /\ observations = last.observations,
                          max_patterns |-> max_patterns,
                          pre |-> [personal |-> personal],
                          patterns |-> r.patterns,
                          created |-> r.created,
                          ret |-> [new_count |-> r.new_count,
                                   updated_count |-> r.updated_count],
                          n |-> last.n + 1]
    /\ UNCHANGED <<call, engine, target, manager, inherited, archived, exported,
                   moves>>

InitObserver ==
    /\ call = NoCall
    /\ engine = NoEngine
    /\ target = NoInstinct
    /\ manager = NoManager
    /\ personal = EmptyDir
    /\ inherited = EmptyDir
    /\ archived = EmptyDir
    /\ exported = NoFile
    /\ clock = 0
    /\ moves = <<>>
    /\ last = [cmd |-> "none", n |-> 0]

NextObserver ==
    \/ RunObserver

SpecObserver == InitObserver /\ [][NextObserver]_vars

Observed == last.cmd = "observer"

\* C12: the instincts that one observer cycle creates from distinct patterns
\* have distinct ids, and a cycle that reports N new instincts leaves N new
\* files in the personal directory.
C12_NewInstinctsGetOwnFiles ==
    Observed =>
        /\ \A j, k \in 1..Len(last.created) :
              j # k => last.created[j] # last.created[k]
        /\ Cardinality(DOMAIN personal \ DOMAIN last.pre.personal)
              = last.ret.new_count

----------------------------------------------------------------------------
(* scripts/utils/instinct_parser.py, line by line *)

\* A file is a sequence of lines: the delimiter '---', a line 'key: scalar'
\* (the scalar's characters are kept as a sequence), or any other text (a
\* blank line is the text without characters).
Delimiter == [kind |-> "---"]

Yaml(key, chars) == [kind |-> "yaml", key |-> key, chars |-> chars]

Text(chars) == [kind |-> "text", chars |-> chars]

Blank == Text(<<>>)

ALLOWED_KEYS ==
    {"id", "trigger", "confidence", "domain", "source", "created",
     "last_observed", "evidence_count", "source_repo"}

PARSER_MIN_CONFIDENCE == 0

PARSER_MAX_CONFIDENCE == 100

\* An integer scalar too large for a binary64 (more than 309 digits).
HugeInteger == "1 followed by 400 zeros"

PythonTag == "!!python/object/apply:builtins.eval"

\* The character that the escape \a stands for in a double-quoted scalar.
Bell == "\\a"

\* The floats of the inputs as Python writes them, with their values in
\* hundredths; repr and YAML's float agree on these.
FloatTexts ==
    {[text |-> "0.0", v |-> 0], [text |-> "0.5", v |-> 50],
     [text |-> "0.6", v |-> 60], [text |-> "0.7", v |-> 70],
     [text |-> "1.0", v |-> 100], [text |-> "1.5", v |-> 150]}

Quote == "\""

\* YAML's resolution of a scalar: a double-quoted scalar is the string
\* between the quotes; a plain one is a float (in hundredths), an integer,
\* null, or a string.
YamlScalar(chars) ==
    IF Len(chars) >= 2 /\ chars[1] = Quote /\ chars[Len(chars)] = Quote
    THEN [type |-> "str", chars |-> SubSeq(chars, 2, Len(chars) - 1)]
    ELSE IF \E f \in FloatTexts : chars = <<f.text>>
    THEN [type |-> "float",
          v |-> (CHOOSE f \in FloatTexts : chars = <<f.text>>).v]
    ELSE CASE chars = <<"1">> -> [type |-> "int", v |-> 1]
           [] chars = <<"0">> -> [type |-> "int", v |-> 0]
           [] chars = <<HugeInteger>> -> [type |-> "bigint"]
           [] chars = <<"null">> -> [type |-> "none"]
           [] OTHER -> [type |-> "str", chars |-> chars]

LastWithKey(lines, key) ==
    lines[CHOOSE k \in 1..Len(lines) :
              /\ lines[k].key = key
              /\ \A j \in (k + 1)..Len(lines) : lines[j].key # key]

\* yaml.safe_load of the frontmatter lines joined: nothing gives None, a tag
\* of a Python object raises ConstructorError (a YAMLError), plain text gives
\* a string, text among the keys is a syntax error, keys give a dict.
safe_load(frontmatter_lines) ==
    LET lines == SelectSeq(frontmatter_lines, LAMBDA l : l # Blank)
        at == 1..Len(lines)
    IN  IF lines = <<>> THEN Value([type |-> "none"])
        ELSE IF \E k \in at : /\ lines[k].kind = "yaml"
                              /\ lines[k].chars # <<>>
                              /\ lines[k].chars[1] = PythonTag
                THEN Raised("YAMLError")
        ELSE IF \A k \in at : lines[k].kind = "text"
                THEN Value([type |-> "str", chars |-> <<>>])
        ELSE IF \E k \in at : lines[k].kind = "text"
                THEN Raised("YAMLError")
        ELSE Value([type |-> "dict",
                    items |-> [key \in {lines[k].key : k \in at} |->
                                  YamlScalar(LastWithKey(lines, key).chars)]])

\* float(value), in hundredths.
ToFloat(value) ==
    CASE value.type = "float" -> Value(value.v)
      [] value.type = "int" -> Value(100 * value.v)
      [] value.type = "bigint" -> Raised("OverflowError")
      [] value.type = "str" -> Raised("ValueError")
      [] OTHER -> Raised("TypeError")

validate_confidence(value) ==
    LET conf == ToFloat(value)
    IN  IF conf.exc \in {"TypeError", "ValueError"} THEN Raised("ValueError")
        ELSE IF conf.exc # "none" THEN conf
        ELSE IF ~(PARSER_MIN_CONFIDENCE <= conf.v /\ conf.v <= PARSER_MAX_CONFIDENCE)
                THEN Raised("ValueError")
        ELSE Value([type |-> "float", v |-> conf.v])

\* re.sub(r'[\x00-\x08\x0b\x0c\x0e-\x1f]', '', value) on a string value.
sanitize_string(value) ==
    IF value.type = "str"
    THEN [value EXCEPT !.chars = SelectSeq(value.chars, LAMBDA c : c # Bell)]
    ELSE value

\* Lines 56-76: what the end of a frontmatter adds to current. YAMLError and
\* ValueError are caught and add nothing; another exception leaves the call.
ParseFrontmatter(frontmatter_lines) ==
    LET parsed == safe_load(frontmatter_lines)
    IN  IF parsed.exc # "none" \/ parsed.v.type # "dict" THEN Value(<<>>)
        ELSE LET items == parsed.v.items
                 kept == [k \in DOMAIN items \cap ALLOWED_KEYS |-> items[k]]
                 conf == IF "confidence" \in DOMAIN kept
                         THEN validate_confidence(kept.confidence)
                         ELSE Value(0)
             IN  IF conf.exc = "ValueError" THEN Value(<<>>)
                 ELSE IF conf.exc # "none" THEN conf
                 ELSE Value([k \in DOMAIN kept |->
                                IF k = "confidence" THEN conf.v
                                ELSE sanitize_string(kept[k])])

\* '\n'.join(content_lines).strip(): the lines without the blank lines at
\* both ends (the lines of the inputs have no spaces at their ends).
RECURSIVE DropBlank(_)
DropBlank(lines) ==
    IF lines # <<>> /\ Head(lines) = Blank THEN DropBlank(Tail(lines)) ELSE lines

Reverse(s) == [k \in 1..Len(s) |-> s[Len(s) + 1 - k]]

Strip(lines) == Reverse(DropBlank(Reverse(DropBlank(lines))))

\* if current: current['content'] = ...; instincts.append(current)
SaveCurrent(st) ==
    IF DOMAIN st.current # {}
    THEN Append(st.instincts,
                Merge([content |-> Strip(st.content_lines)], st.current))
    ELSE st.instincts

\* The loop over the lines, lines 52-91.
RECURSIVE ScanLines(_, _)
ScanLines(lines, st) ==
    IF lines = <<>> \/ st.exc # "none" THEN st
    ELSE LET line == Head(lines)
             parsed == ParseFrontmatter(st.frontmatter_lines)
             next ==
                 IF line = Delimiter /\ st.in_frontmatter
                 THEN [st EXCEPT !.exc = parsed.exc,
                                 !.current = IF parsed.exc = "none"
                                             THEN Merge(parsed.v, st.current)
                                             ELSE st.current,
                                 !.in_frontmatter = FALSE,
                                 !.frontmatter_lines = <<>>]
                 ELSE IF line = Delimiter
                 THEN [st EXCEPT !.instincts = SaveCurrent(st),
                                 !.current = <<>>,
                                 !.content_lines = <<>>,
                                 !.in_frontmatter = TRUE]
                 ELSE IF st.in_frontmatter
                 THEN [st EXCEPT !.frontmatter_lines = Append(@, line)]
                 ELSE [st EXCEPT !.content_lines = Append(@, line)]
         IN  ScanLines(Tail(lines), next)

\* Python's truth value of an id.
IsTrue(value) ==
    CASE value.type = "str" -> value.chars # <<>>
      [] value.type \in {"int", "float"} -> value.v # 0
      [] value.type = "none" -> FALSE
      [] OTHER -> TRUE

parse_instinct_lines(content) ==
    LET st == ScanLines(content,
                        [instincts |-> <<>>, current |-> <<>>,
                         in_frontmatter |-> FALSE, content_lines |-> <<>>,
                         frontmatter_lines |-> <<>>, exc |-> "none"])
    IN  IF st.exc # "none" THEN Raised(st.exc)
        ELSE Value(SelectSeq(SaveCurrent(st),
                             LAMBDA i : "id" \in DOMAIN i /\ IsTrue(i.id)))

----------------------------------------------------------------------------
(* The parser, one file at a time *)

MaxBlocks == 3

Frontmatters ==
    {<<Yaml("id", <<"x">>), Yaml("trigger", <<"t">>), Yaml("confidence", <<"0.7">>)>>,
     <<Yaml("id", <<"y">>), Yaml("domain", <<"d">>)>>,
     <<Yaml("trigger", <<"n">>), Yaml("confidence", <<"0.5">>)>>,
     <<Yaml("id", <<"x">>), Yaml("confidence", <<"1.5">>)>>,
     <<Yaml("id", <<"y">>), Yaml("trigger", <<PythonTag>>)>>,
     <<Yaml("id", <<"x">>), Yaml("confidence", <<HugeInteger>>)>>,
     <<Yaml("id", <<"y">>), Yaml("confidence", <<"1">>)>>,
     <<Yaml("id", <<>>), Yaml("trigger", <<"t">>)>>,
     <<Yaml("id", <<"x">>), Yaml("trigger", <<"t", Bell>>),
       Yaml("__dangerous_key__", <<"v">>)>>,
     <<Text(<<"a">>)>>,
     <<>>}

Bodies == {<<>>, <<Text(<<"a">>)>>, <<Blank, Text(<<"b">>), Blank, Text(<<"c">>), Blank>>}

FileBlocks == [frontmatter : Frontmatters, body : Bodies]

RenderBlock(b) == <<Delimiter>> \o b.frontmatter \o <<Delimiter>> \o b.body

RECURSIVE RenderBlocks(_)
RenderBlocks(blocks) ==
    IF blocks = <<>> THEN <<>>
    ELSE RenderBlock(Head(blocks)) \o RenderBlocks(Tail(blocks))

\* Files of one to three blocks, with or without text before the first
\* block, and files whose last frontmatter is never closed.
InstinctFiles ==
    LET whole == UNION {{RenderBlocks(bs) : bs \in [1..n -> FileBlocks]} : n \in 1..2}
        three == {RenderBlocks(bs) :
                     bs \in [1..MaxBlocks -> {b \in FileBlocks : Len(b.body) <= 1}]}
    IN  whole \cup three
            \cup {<<Text(<<"p">>)>> \o f : f \in whole}
            \cup {f \o <<Delimiter, Yaml("id", <<"y">>)>> : f \in whole}

ParseCalls == {Pending("parse_instinct_file", [content |-> f]) : f \in InstinctFiles}

ParseInstinctFile ==
    /\ Calling("parse_instinct_file")
    /\ LET r == parse_instinct_lines(call.args.content)
       IN  IF r.exc = "none" THEN Return(r.v) ELSE Raise(r.exc)
    /\ UNCHANGED <<engine, target, manager, storeVars>>

InitParse ==
    /\ call \in ParseCalls
    /\ engine = NoEngine
    /\ target = NoInstinct
    /\ manager = NoManager
    /\ StoreIdle

NextParse ==
    \/ ParseInstinctFile

SpecParse == InitParse /\ [][NextParse]_vars

\* The blocks of a file as its delimiters mark them: the n-th block's
\* frontmatter lies between the delimiters 2n-1 and 2n, its body between the
\* delimiter 2n and the next one (or the end of the file).
Delimiters(content) == {k \in 1..Len(content) : content[k] = Delimiter}

NthDelimiter(content, n) ==
    CHOOSE k \in Delimiters(content) :
        Cardinality({j \in Delimiters(content) : j <= k}) = n

BlockCount(content) == Cardinality(Delimiters(content)) \div 2

FrontmatterOf(content, n) ==
    SubSeq(content, NthDelimiter(content, 2 * n - 1) + 1,
           NthDelimiter(content, 2 * n) - 1)

BodyOf(content, n) ==
    SubSeq(content, NthDelimiter(content, 2 * n) + 1,
           IF 2 * n + 1 <= Cardinality(Delimiters(content))
           THEN NthDelimiter(content, 2 * n + 1) - 1
           ELSE Len(content))

HasTrueId(items) == "id" \in DOMAIN items /\ IsTrue(items.id)

ConfidenceInRange(items) ==
    "confidence" \in DOMAIN items =>
        /\ items.confidence.type \in {"float", "int"}
        /\ ToFloat(items.confidence).v \in PARSER_MIN_CONFIDENCE..PARSER_MAX_CONFIDENCE

\* A block that the claim does not have skipped: well-formed YAML keys, an
\* id, and a confidence, if any, within [0.0, 1.0].
Accepted(content, n) ==
    LET parsed == safe_load(FrontmatterOf(content, n))
    IN  /\ parsed.exc = "none"
        /\ parsed.v.type = "dict"
        /\ HasTrueId(parsed.v.items)
        /\ ConfidenceInRange(parsed.v.items)

\* The record of an accepted block: its allowed keys with their values (the
\* confidence as a float, strings without control characters) and its body.
RecordOf(content, n) ==
    LET items == safe_load(FrontmatterOf(content, n)).v.items
    IN  Merge([content |-> Strip(BodyOf(content, n))],
              [k \in DOMAIN items \cap ALLOWED_KEYS |->
                  IF k = "confidence"
                  THEN [type |-> "float", v |-> ToFloat(items[k]).v]
                  ELSE sanitize_string(items[k])])

RECURSIVE AcceptedFrom(_, _)
AcceptedFrom(content, n) ==
    IF n > BlockCount(content) THEN <<>>
    ELSE (IF Accepted(content, n) THEN <<RecordOf(content, n)>> ELSE <<>>)
            \o AcceptedFrom(content, n + 1)

\* C23: parse_instinct_file returns, in file order, exactly the blocks that
\* have well-formed YAML, an id and no confidence outside [0.0, 1.0], each
\* with its own fields and its own body; every other block is skipped.
C23_BlocksParsedIndependently ==
    Called("parse_instinct_file") =>
        /\ call.exc = "none"
        /\ call.ret = AcceptedFrom(call.args.content, 1)
        /\ \A k \in 1..Len(call.ret) :
              /\ HasTrueId(call.ret[k])
              /\ "confidence" \in DOMAIN call.ret[k] =>
                    call.ret[k].confidence.v \in 0..100

----------------------------------------------------------------------------
(* scripts/commands/cmd_export.py *)

\* repr of a float of the inputs.
FloatText(v) == (CHOOSE f \in FloatTexts : f.v = v).text

\* inst.get(key) is false: no such key, the number 0 or the empty string.
IsFalse(inst, key) ==
    \/ key \notin DOMAIN inst
    \/ key = "confidence" /\ inst[key] = 0
    \/ key # "confidence" /\ inst[key] = ""

\* Lines 91-94: the trigger between double quotes, any other value as str()
\* writes it.
ExportLine(key, value) ==
    IF key = "trigger" THEN Yaml(key, <<Quote, value, Quote>>)
    ELSE IF key = "confidence" THEN Yaml(key, <<FloatText(value)>>)
    ELSE Yaml(key, <<value>>)

ExportKeys == <<"id", "trigger", "confidence", "domain", "source", "source_repo">>

RECURSIVE ExportLines(_, _)
ExportLines(inst, keys) ==
    IF keys = <<>> THEN <<>>
    ELSE (IF IsFalse(inst, Head(keys)) THEN <<>>
          ELSE <<ExportLine(Head(keys), inst[Head(keys)])>>)
            \o ExportLines(inst, Tail(keys))

\* Lines 86-96, for the instincts in their order.
RECURSIVE ExportInstincts(_)
ExportInstincts(instincts) ==
    IF instincts = <<>> THEN <<>>
    ELSE <<Delimiter>> \o ExportLines(Head(instincts), ExportKeys)
            \o <<Delimiter, Blank>> \o Get(Head(instincts), "content", <<Blank>>)
            \o <<Blank>> \o ExportInstincts(Tail(instincts))

\* The whole command. args: output (a path is given), domain ("" for none),
\* min_confidence.
cmd_export(pers, inh, args) ==
    LET all == load_all_instincts(pers, inh)
        of_domain ==
            IF args.domain # ""
            THEN SelectSeq(all, LAMBDA i : Get(i, "domain", "") = args.domain)
            ELSE all
        instincts ==
            IF MinConf(args.min_confidence) # 0
            THEN SelectSeq(of_domain,
                           LAMBDA i : Get(i, "confidence", 50)
                                         >= MinConf(args.min_confidence))
            ELSE of_domain
        output == <<Text(<<"# Instincts export">>), Text(<<"# Date">>),
                    Text(<<"# Total">>), Blank>>
                      \o ExportInstincts(instincts)
    IN  IF all = <<>> \/ instincts = <<>> THEN [ret |-> 1, written |-> FALSE]
        ELSE [ret |-> 0, written |-> args.output, output |-> output]

----------------------------------------------------------------------------
(* A store exported and the export imported *)

\* A Python value of the parser as the store model holds it: a string of
\* one symbol as that symbol, a float as its hundredths.
PlainValue(value) ==
    IF value.type = "str"
    THEN (IF value.chars = <<>> THEN "" ELSE value.chars[1])
    ELSE value.v

PlainInstincts(instincts) ==
    [k \in 1..Len(instincts) |->
        [key \in DOMAIN instincts[k] \ {"content"} |->
            PlainValue(instincts[k][key])]]

\* Stored instincts x and y with and without a trigger, a confidence (0.0
\* among them) and a domain.
StoredX ==
    {Merge([id |-> "x"], Merge(t, Merge(c, d))) :
        t \in OptionalField("trigger", {"t"}),
        c \in OptionalField("confidence", {0, 60}),
        d \in OptionalField("domain", {"d"})}

StoredY ==
    {[id |-> "y", trigger |-> "u", confidence |-> 70, domain |-> "d"],
     [id |-> "y", trigger |-> "u", confidence |-> 100, domain |-> "e",
      source |-> "inherited"]}

\* personal/x.md and inherited/y.md, each absent or holding one instinct.
ExportedPersonalDirs ==
    OptionalField(FileName("x", "md"), {<<i>> : i \in StoredX})

ExportedInheritedDirs ==
    OptionalField(FileName("y", "md"), {<<i>> : i \in StoredY})

ExportArgs ==
    [output : BOOLEAN, domain : {"", "d"}, min_confidence : {NoneValue, Float(70)}]

CmdExport ==
    /\ last.n < MaxCommands
    /\ \E args \in ExportArgs :
          LET r == cmd_export(personal, inherited, args)
          IN  /\ exported' = IF r.written
                             THEN [exists |-> TRUE, content |-> r.output]
                             ELSE exported
              /\ last' = [cmd |-> "export", args |-> args, ret |-> r.ret,
                          pre |-> [personal |-> personal,
                                   inherited |-> inherited,
                                   archived |-> archived],
                          origin |-> IF r.written
                                     THEN [personal |-> personal,
                                           inherited |-> inherited,
                                           args |-> args]
                                     ELSE last.origin,
                          n |-> last.n + 1]
    /\ UNCHANGED <<call, engine, target, manager, personal, inherited,
                   archived, clock, moves>>

\* INSTINCT_LEARNING_DATA_DIR is set to a new, empty directory.
UseEmptyStore ==
    /\ last.cmd = "export"
    /\ exported.exists
    /\ personal' = EmptyDir
    /\ inherited' = EmptyDir
    /\ archived' = EmptyDir
    /\ UNCHANGED <<call, engine, target, manager, exported, clock, moves, last>>

\* cmd_import of the exported file.
CmdImportExported ==
    /\ last.n < MaxCommands
    /\ exported.exists
    /\ \E dry_run \in BOOLEAN, confirm \in Confirmations :
          LET parsed == parse_instinct_lines(exported.content)
              args == [source |-> [found |-> TRUE,
                                   content |-> PlainInstincts(parsed.v)],
                       min_confidence |-> NoneValue,
                       dry_run |-> dry_run, force |-> confirm.force]
              r == cmd_import(personal, inherited, args, confirm.answer)
          IN  /\ parsed.exc = "none"
              /\ inherited' = r.inherited
              /\ last' = [cmd |-> "import", args |-> args,
                          pre |-> [personal |-> personal,
                                   inherited |-> inherited,
                                   archived |-> archived],
                          answer |-> confirm.answer,
                          ret |-> r.ret, exc |-> "none",
                          written |-> r.written, origin |-> last.origin,
                          n |-> last.n + 1]
    /\ UNCHANGED <<call, engine, target, manager, personal, archived, exported,
                   clock, moves>>

InitRoundTrip ==
    /\ call = NoCall
    /\ engine = NoEngine
    /\ target = NoInstinct
    /\ manager = NoManager
    /\ personal \in ExportedPersonalDirs
    /\ inherited \in ExportedInheritedDirs
    /\ archived = EmptyDir
    /\ exported = NoFile
    /\ clock = 0
    /\ moves = <<>>
    /\ last = [cmd |-> "none", n |-> 0, origin |-> [args |-> <<>>]]

NextRoundTrip ==
    \/ CmdExport
    \/ UseEmptyStore
    \/ CmdImportExported

SpecRoundTrip == InitRoundTrip /\ [][NextRoundTrip]_vars

\* A confirmed import of a file to which a whole store was exported.
RoundTrip ==
    /\ last.cmd = "import"
    /\ ~last.args.dry_run
    /\ last.args.force \/ last.answer = "y"
    /\ last.origin.args = [output |-> TRUE, domain |-> "",
                           min_confidence |-> NoneValue]

ExportedFrom == load_all_instincts(last.origin.personal, last.origin.inherited)

IdsOf(instincts) == {instincts[k].id : k \in 1..Len(instincts)}

\* The trigger, confidence and domain of an instinct, as the commands read
\* them when the key is missing.
FieldsOf(inst) ==
    [trigger |-> Get(inst, "trigger", "unknown"),
     confidence |-> Get(inst, "confidence", 50),
     domain |-> Get(inst, "domain", "general")]

\* C24: a whole store exported and the file imported into an empty store
\* gives a store with the same ids and, for each id, the same trigger,
\* confidence and domain; imported into the store it came from, the file
\* adds and updates nothing.
C24_ExportImportRoundTrip ==
    /\ (RoundTrip /\ last.pre.personal = EmptyDir /\ last.pre.inherited = EmptyDir)
          => /\ IdsOf(Loadable) = IdsOf(ExportedFrom)
             /\ \A a \in SeqToSet(Loadable), b \in SeqToSet(ExportedFrom) :
                   a.id = b.id => FieldsOf(a) = FieldsOf(b)
    /\ (RoundTrip /\ last.pre.personal = last.origin.personal
                  /\ last.pre.inherited = last.origin.inherited)
          => /\ last.written = <<>>
             /\ inherited = last.pre.inherited

----------------------------------------------------------------------------
(* lib/pattern_detection.py, lib/clustering.py: grouping by domain *)

PatternsInDomain(patterns, d) == SelectSeq(patterns, LAMBDA p : p.domain = d)

\* Each domain's patterns are kept last first.
group_patterns_by_domain_last_first(patterns) ==
    LET domains == DomainOrder(patterns, <<>>)
    IN  [k \in 1..Len(domains) |->
            [domain |-> domains[k],
             patterns |-> Reverse(PatternsInDomain(patterns, domains[k]))]]

\* The dict of domain -> patterns, as the sequence of its items in insertion
\* order.
group_patterns_by_domain(patterns) ==
    LET domains == DomainOrder(patterns, <<>>)
    IN  [k \in 1..Len(domains) |->
            [domain |-> domains[k],
             patterns |-> PatternsInDomain(patterns, domains[k])]]

MaxPatterns == 3

\* Patterns that the detectors return: sequences, an error fix and a tool
\* preference, of three domains.
PatternSamples ==
    UNION {SeqToSet(detect_all_patterns(InSessions(steps, 3))) :
              steps \in {s \in SessionSteps : Len(s) \in {2, 4}}}

PatternLists == UNION {[1..n -> PatternSamples] : n \in 0..MaxPatterns}

GroupCalls ==
    {Pending("pattern_to_instinct", [patterns |-> ps, now |-> t]) :
        ps \in PatternLists, t \in {0, 60}}

\* The patterns converted, one by one and in their order.
ConvertPatterns ==
    /\ Calling("pattern_to_instinct")
    /\ call' = Pending("group_by_domain",
                       Merge([instincts |->
                                 [k \in 1..Len(call.args.patterns) |->
                                     pattern_to_instinct(call.args.patterns[k],
                                                         call.args.now)]],
                             call.args))
    /\ UNCHANGED <<engine, target, manager, storeVars>>

GroupByDomain ==
    /\ Calling("group_by_domain")
    /\ call' = Pending("group_patterns_by_domain",
                       Merge([grouped |-> group_by_domain(call.args.instincts)],
                             call.args))
    /\ UNCHANGED <<engine, target, manager, storeVars>>

GroupPatternsByDomain ==
    /\ Calling("group_patterns_by_domain")
    /\ Return(group_patterns_by_domain(call.args.patterns))
    /\ UNCHANGED <<engine, target, manager, storeVars>>

InitGroup ==
    /\ call \in GroupCalls
    /\ engine = NoEngine
    /\ target = NoInstinct
    /\ manager = NoManager
    /\ StoreIdle

NextGroup ==
    \/ ConvertPatterns
    \/ GroupByDomain
    \/ GroupPatternsByDomain

SpecGroup == InitGroup /\ [][NextGroup]_vars

Converted(patterns) ==
    [k \in 1..Len(patterns) |-> pattern_to_instinct(patterns[k], call.args.now)]

\* C25: the instincts converted from patterns, grouped by domain, have the
\* domains of the patterns grouped by domain, and each domain's instincts
\* are the conversions of that domain's patterns, in the same order.
C25_GroupingCommutesWithConversion ==
    Called("group_patterns_by_domain") =>
        /\ {g.domain : g \in SeqToSet(call.args.grouped)}
              = {g.domain : g \in SeqToSet(call.ret)}
        /\ \A gi \in SeqToSet(call.args.grouped), gp \in SeqToSet(call.ret) :
              gi.domain = gp.domain => gi.instincts = Converted(gp.patterns)

\* Three patterns of two domains, the first and the last of one domain.
C25_Witness ==
    /\ Called("group_patterns_by_domain")
    /\ Len(call.args.patterns) = 3
    /\ call.args.patterns[1].domain = call.args.patterns[3].domain
    /\ call.args.patterns[1].domain # call.args.patterns[2].domain
    /\ call.args.patterns[1] # call.args.patterns[3]
    /\ Len(call.ret) = 2
    /\ Len(call.ret[1].patterns) = 2

----------------------------------------------------------------------------
(* lib/clustering.py: an EvolutionEngine analysing again and again *)

MaxAnalyses == 3

Members(n, domain, confidence) ==
    [k \in 1..n |-> [id |-> "i", trigger |-> {"when"},
                     confidence |-> confidence, domain |-> domain]]

\* Instincts giving no cluster, a ready one, a pending one, or both.
EngineInstinctLists ==
    {<<>>,
     Members(3, "testing", 80),
     Members(3, "git", 90),
     Members(2, "git", 80),
     Members(3, "testing", 80) \o Members(2, "git", 80),
     Members(2, "testing", 70) \o Members(3, "git", 80),
     Members(3, "testing", 60) \o Members(1, "git", 80)}

NotAsked == [asked |-> FALSE, clusters |-> <<>>]

Answer(clusters) == [asked |-> TRUE, clusters |-> clusters]

\* engine.analyze(instincts); last remembers the call, what the two getters
\* returned before it, and every cluster of the earlier results.
EngineAnalyze ==
    /\ last.n < MaxAnalyses
    /\ \E instincts \in EngineInstinctLists :
          /\ engine' = analyze(engine, instincts)
          /\ call' = [fn |-> "analyze", args |-> [instincts |-> instincts],
                      done |-> TRUE, ret |-> engine'.clusters, exc |-> "none"]
          /\ last' = [cmd |-> "analyze", n |-> last.n + 1,
                      instincts |-> instincts,
                      repeated |-> last.n > 0 /\ instincts = last.instincts,
                      ready_before |-> get_ready_clusters(engine),
                      pending_before |-> get_pending_clusters(engine),
                      earlier |-> last.earlier \cup SeqToSet(engine.clusters),
                      ready |-> NotAsked, pending |-> NotAsked]
    /\ UNCHANGED <<target, manager, personal, inherited, archived, exported,
                   clock, moves>>

EngineGetReadyClusters ==
    /\ call' = [fn |-> "get_ready_clusters", args |-> <<>>, done |-> TRUE,
                ret |-> get_ready_clusters(engine), exc |-> "none"]
    /\ last' = [last EXCEPT !.ready = Answer(get_ready_clusters(engine))]
    /\ UNCHANGED <<engine, target, manager, personal, inherited, archived,
                   exported, clock, moves>>

EngineGetPendingClusters ==
    /\ call' = [fn |-> "get_pending_clusters", args |-> <<>>, done |-> TRUE,
                ret |-> get_pending_clusters(engine), exc |-> "none"]
    /\ last' = [last EXCEPT !.pending = Answer(get_pending_clusters(engine))]
    /\ UNCHANGED <<engine, target, manager, personal, inherited, archived,
                   exported, clock, moves>>

\* A new EvolutionEngine(min_cluster_size).
InitEngine ==
    /\ call = NoCall
    /\ engine \in [min_cluster_size : 1..MIN_INSTINCTS_FOR_CLUSTER,
                   clusters : {<<>>}]
    /\ target = NoInstinct
    /\ manager = NoManager
    /\ personal = <<>>
    /\ inherited = <<>>
    /\ archived = {}
    /\ exported = NoFile
    /\ clock = 0
    /\ moves = <<>>
    /\ last = [cmd |-> "none", n |-> 0, instincts |-> <<>>,
               repeated |-> FALSE, ready_before |-> <<>>,
               pending_before |-> <<>>, earlier |-> {},
               ready |-> NotAsked, pending |-> NotAsked]

NextEngine ==
    \/ EngineAnalyze
    \/ EngineGetReadyClusters
    \/ EngineGetPendingClusters

SpecEngine == InitEngine /\ [][NextEngine]_vars

\* What the most recent analyze made of its instincts (nothing before the
\* first analyze).
MostRecent ==
    IF last.n = 0 THEN <<>>
    ELSE create_clusters(last.instincts, engine.min_cluster_size,
                         MIN_AVG_CONFIDENCE)

Occurrences(seq, x) == Cardinality({k \in 1..Len(seq) : seq[k] = x})

\* C26: what get_ready_clusters and get_pending_clusters return are clusters
\* of the most recent analyze only, each of its clusters in exactly one of
\* the two and once; an analyze of the same instincts again leaves both as
\* they were; before the first analyze both are empty.
C26_CacheReplacedByAnalyze ==
    /\ (last.ready.asked /\ last.pending.asked) =>
          /\ \A c \in SeqToSet(last.ready.clusters \o last.pending.clusters)
                    \cup SeqToSet(MostRecent) :
                Occurrences(last.ready.clusters \o last.pending.clusters, c)
                    = Occurrences(MostRecent, c)
          /\ \A c \in SeqToSet(MostRecent) : Occurrences(MostRecent, c) = 1
          /\ \A c \in last.earlier \ SeqToSet(MostRecent) :
                Occurrences(last.ready.clusters \o last.pending.clusters, c) = 0
    /\ (last.ready.asked /\ last.repeated) =>
          last.ready.clusters = last.ready_before
    /\ (last.pending.asked /\ last.repeated) =>
          last.pending.clusters = last.pending_before
    /\ (last.n = 0 /\ last.ready.asked) => last.ready.clusters = <<>>
    /\ (last.n = 0 /\ last.pending.asked) => last.pending.clusters = <<>>

\* A third analyze, of other instincts than the second: one cluster is
\* ready, one is pending, and a cluster of an earlier result is gone.
C26_Witness ==
    /\ last.n = 3
    /\ ~last.repeated
    /\ last.ready.asked
    /\ last.pending.asked
    /\ Len(last.ready.clusters) = 1
    /\ Len(last.pending.clusters) = 1
    /\ last.earlier \ SeqToSet(MostRecent) # {}

----------------------------------------------------------------------------
(* lib/confidence.py: ConfidenceManager *)

SecondsPerDay == 24 * 3600

\* ConfidenceFactors(): the defaults of the dataclass.
DefaultFactors ==
    [occurrence_count |-> 0, user_corrections |-> 0, consistency_score |-> 100,
     recency_boost |-> 0, domain_relevance |-> 100]

\* self.last_used[instinct_id] = datetime.utcnow()
record_use(mgr, instinct_id, now) ==
    [mgr EXCEPT !.last_used = Merge([k \in {instinct_id} |-> now], @)]

\* self.corrections[instinct_id] = self.corrections.get(instinct_id, 0) + 1
record_correction(mgr, instinct_id) ==
    [mgr EXCEPT !.corrections =
        Merge([k \in {instinct_id} |-> Get(@, instinct_id, 0) + 1], @)]

\* base_confidence is a parameter that the body does not read.
get_adjusted_confidence(mgr, instinct_id, base_confidence, now) ==
    LET corrected ==
            [DefaultFactors EXCEPT
                !.user_corrections = Get(mgr.corrections, instinct_id, 0)]
        days_since == (now - mgr.last_used[instinct_id]) \div SecondsPerDay
        factors ==
            IF instinct_id \in DOMAIN mgr.last_used
            THEN [corrected EXCEPT
                     !.recency_boost =
                         0 - calculate_decay(0, days_since, mgr.decay_rate)]
            ELSE corrected
    IN  calculate_confidence(factors)

----------------------------------------------------------------------------
(* A ConfidenceManager in use *)

MaxRecords == 3

MaxHalfDays == 3

InstinctIds == {"a", "b"}

BaseConfidences == {31, 35, 40, 41, 50, 70, 90}

Recorded ==
    SumSeq([k \in 1..2 |->
               IF k = 1 THEN Get(manager.corrections, "a", 0)
               ELSE Get(manager.corrections, "b", 0)])

\* Half a day passes.
Wait ==
    /\ clock < MaxHalfDays * (SecondsPerDay \div 2)
    /\ clock' = clock + SecondsPerDay \div 2
    /\ UNCHANGED <<call, engine, target, manager, personal, inherited, archived,
                   exported, moves, last>>

RecordUse ==
    /\ \E id \in InstinctIds :
          /\ manager' = record_use(manager, id, clock)
          /\ call' = [fn |-> "record_use", args |-> [instinct_id |-> id],
                      done |-> TRUE, ret |-> 0, exc |-> "none"]
    /\ UNCHANGED <<engine, target, storeVars>>

RecordCorrection ==
    /\ Recorded < MaxRecords
    /\ \E id \in InstinctIds :
          /\ manager' = record_correction(manager, id)
          /\ call' = [fn |-> "record_correction", args |-> [instinct_id |-> id],
                      done |-> TRUE, ret |-> 0, exc |-> "none"]
    /\ UNCHANGED <<engine, target, storeVars>>

GetAdjustedConfidence ==
    /\ \E id \in InstinctIds, base \in BaseConfidences :
          call' = [fn |-> "get_adjusted_confidence",
                   args |-> [instinct_id |-> id, base_confidence |-> base],
                   done |-> TRUE,
                   ret |-> get_adjusted_confidence(manager, id, base, clock),
                   exc |-> "none"]
    /\ UNCHANGED <<engine, target, manager, storeVars>>

\* ConfidenceManager(), with the default decay rate of 0.02 a day.
InitManager ==
    /\ call = NoCall
    /\ engine = NoEngine
    /\ target = NoInstinct
    /\ manager = [decay_rate |-> 2, corrections |-> <<>>, last_used |-> <<>>]
    /\ StoreIdle

NextManager ==
    \/ Wait
    \/ RecordUse
    \/ RecordCorrection
    \/ GetAdjustedConfidence

SpecManager == InitManager /\ [][NextManager]_vars

\* C27: once a correction is recorded for an id, get_adjusted_confidence of
\* that id and a base above 0.3 is strictly below the base and not below
\* 0.3, whatever was recorded for other ids.
C27_CorrectionLowersBelowBase ==
    (/\ Called("get_adjusted_confidence")
     /\ call.args.base_confidence > MIN_CONFIDENCE
     /\ Get(manager.corrections, call.args.instinct_id, 0) >= 1)
        => /\ call.ret < call.args.base_confidence
           /\ call.ret >= MIN_CONFIDENCE

----------------------------------------------------------------------------
(* Sorted results: create_clusters and detect_all_patterns *)

SortCalls ==
    {c \in ClusterCalls : c.fn = "create_clusters"}
    \cup {Pending("detect_all_patterns", [observations |-> log]) :
            log \in ObservationLogs}

DetectAllPatterns ==
    /\ Calling("detect_all_patterns")
    /\ Return(detect_all_patterns(call.args.observations))
    /\ UNCHANGED <<engine, target, manager, storeVars>>

InitSort ==
    /\ call \in SortCalls
    /\ engine = NoEngine
    /\ target = NoInstinct
    /\ manager = NoManager
    /\ StoreIdle

NextSort ==
    \/ CreateClusters
    \/ DetectAllPatterns

SpecSort == InitSort /\ [][NextSort]_vars

\* The place of a cluster's domain among the domains in the order of their
\* first instincts.
DomainPlace(instincts, domain) ==
    IndexOf(DomainOrder(instincts, <<>>), domain)

\* The patterns in the order of the detectors, before the sort.
Detected(observations) ==
    detect_repeated_sequences(observations, 3)
        \o detect_error_fix_patterns(observations)
        \o detect_tool_preferences(observations)

\* C28: create_clusters returns its clusters in non-increasing order of
\* avg_confidence, clusters of equal avg_confidence in the order in which
\* their domains first occur; detect_all_patterns returns the detected
\* patterns in non-increasing order of confidence, patterns of equal
\* confidence in the order of the detectors.
C28_SortedWithStableTies ==
    /\ Called("create_clusters") =>
          \A j, k \in 1..Len(call.ret) :
              j < k =>
                 /\ call.ret[j].avg_confidence >= call.ret[k].avg_confidence
                 /\ call.ret[j].avg_confidence = call.ret[k].avg_confidence
                       => DomainPlace(call.args.instincts, call.ret[j].domain)
                             < DomainPlace(call.args.instincts, call.ret[k].domain)
    /\ Called("detect_all_patterns") =>
          /\ Len(call.ret) = Len(Detected(call.args.observations))
          /\ \A j, k \in 1..Len(call.ret) :
                j < k => ~F64Less(call.ret[j].confidence, call.ret[k].confidence)
          /\ \A p \in SeqToSet(call.ret) :
                SelectSeq(call.ret, LAMBDA q : q.confidence = p.confidence)
                   = SelectSeq(Detected(call.args.observations),
                               LAMBDA q : q.confidence = p.confidence)

\* Two clusters of equal avg_confidence, the first of the domain that occurs
\* first but whose last instinct comes after the other domain's.
C28_Witness ==
    /\ Called("create_clusters")
    /\ Len(call.ret) = 2
    /\ call.ret[1].avg_confidence = call.ret[2].avg_confidence
    /\ call.ret[1].domain = call.args.instincts[1].domain
    /\ call.ret[1].domain = call.args.instincts[Len(call.args.instincts)].domain

\* Patterns of two detectors with equal confidence, and one of higher
\* confidence that a later detector found.
C28_WitnessPatterns ==
    /\ Called("detect_all_patterns")
    /\ \E j, k \in 1..Len(call.ret) :
          /\ j < k
          /\ call.ret[j].confidence = call.ret[k].confidence
          /\ call.ret[j].pattern_type # call.ret[k].pattern_type
    /\ Detected(call.args.observations) # call.ret

----------------------------------------------------------------------------
(* The observer cycle run again *)

\* The stored instincts that a cycle made of this pattern: those with the
\* trigger and the id words that pattern_to_instinct gives it.
InstinctsOf(pattern, dir) ==
    {i \in LoadAllInstincts(dir) :
        /\ i.trigger = pattern_to_instinct(pattern, 0).trigger
        /\ i.id.base = pattern_to_instinct(pattern, 0).id.base
        /\ i.domain = pattern.domain}

\* The patterns of the last cycle that had an instinct before it.
KnownPatterns ==
    {k \in 1..Len(last.patterns) :
        InstinctsOf(last.patterns[k], last.pre.personal) # {}}

\* C29: in a cycle over the observations of the cycle before, a pattern that
\* has an instinct is matched and its instinct updated (evidence_count + 1),
\* not created again, so a cycle whose patterns all have instincts leaves
\* the number of stored instincts as it was.
C29_SecondCycleUpdates ==
    (Observed /\ last.again) =>
        /\ \A k \in KnownPatterns :
              \A i \in InstinctsOf(last.patterns[k], last.pre.personal) :
                 \E j \in LoadAllInstincts(personal) :
                    /\ j.id = i.id
                    /\ j.evidence_count = i.evidence_count + 1
        /\ KnownPatterns = 1..Len(last.patterns) =>
              /\ last.ret.new_count = 0
              /\ Cardinality(DOMAIN personal)
                    = Cardinality(DOMAIN last.pre.personal)

----------------------------------------------------------------------------

----------------------------------------------------------------------------
(* Decay never raises a score *)

\* cmd_decay's decay_amount = base - effective of one instinct, in 1/700.
decay_amount(instinct, decay_rate, now) ==
    Get(instinct, "confidence", 50) * 7
        - calculate_effective_confidence(instinct, decay_rate, now).v

====
